---- MODULE Spec2Model ----
(***************************************************************************)
(* Worker-side test execution engine of the load-testing platform:         *)
(* error classification and degradation policy, the step executor, the     *)
(* journey runner and the closed/open population simulation.               *)
(*                                                                         *)
(* Time is counted in whole ticks of the wall clock (datetime.now()).      *)
(* A user/session task advances one synchronous segment (the code between  *)
(* two awaits) per action, which is how asyncio schedules it.              *)
(***************************************************************************)
EXTENDS Integers, Sequences, FiniteSets, TLC

\* ------------------------------------------------------------------ bounds
MaxRetry == 2        \* largest retry_attempts drawn
MaxSteps == 2        \* most steps in one journey
MaxRepeat == 2       \* largest repeat count of a journey
MaxJourneys == 2     \* most named journeys in a plan
MaxWork == 4         \* most step executions a plan asks of one user
MaxUsers == 2        \* largest num_users drawn (closed model)
MaxSessions == 2     \* most sessions the arrival loop spawns (open model)
MaxDuration == 1     \* largest test_duration drawn, in ticks
MaxTime == 3         \* the clock stops here
MaxTestWork == 2     \* most step executions per user in a whole-test plan
MaxMessages == 2     \* most task messages published to the queue
MaxLines == 2        \* most lines of a script over the whole line alphabet
MaxJourneyLines == 5 \* most lines of a script of journey directives
MaxDirectiveLines == 4 \* most lines of a script of repeat/if directives
MaxNumericLines == 2 \* most lines of a script of numeric directives
MaxGenDuration == 4 \* largest duration a generator is created with, in seconds
MaxCalls == 2       \* most TestStatus objects the coordinator creates

\* ------------------------------------------------- journey_executor.py enums
ErrorCategory == {"timeout", "network", "http_error", "auth_error", "server_error", "unknown"}

ErrorSeverity == {"low", "medium", "high", "critical"}

DegradationStrategy == {"skip_step", "fallback_endpoint", "continue_journey", "terminate_journey"}

\* Exception kinds an attempt can raise, as categorize_error tells them apart.
\* "TypeError" is what unpacking a None classification raises.
ExceptionKinds == {"TimeoutError", "ClientConnectorError", "ClientError", "TypeError", "Exception"}

\* exception=None
NoException == "None"

\* status_code=None (falsy, like 0)
NoStatus == 0

\* Python's None as the value of categorize_error when no branch returns.
PyNone == <<>>

\* HTTP statuses the target answers with in the model: success, a 3xx that is
\* neither success nor 4xx/5xx, auth errors, a client error, a server error.
StatusCodes == {200, 304, 401, 403, 404, 500}

SupportedMethods == {"GET", "POST", "PUT", "PATCH", "DELETE"}

\* endpoint.get("fallback_endpoint") when the step declares none
NoFallback == "None"

\* ------------------------------------------------------------ pure functions
\* categorize_error with the 4xx range test running up to 600.
categorize_error_wide_4xx(exception, status_code) ==
  IF exception = "TimeoutError" THEN <<"timeout", "medium">>
  ELSE IF exception = "ClientConnectorError" THEN <<"network", "high">>
  ELSE IF exception = "ClientError" THEN <<"network", "medium">>
  ELSE IF status_code # NoStatus THEN
    IF status_code = 401 THEN <<"auth_error", "high">>
    ELSE IF status_code = 403 THEN <<"auth_error", "high">>
    ELSE IF 400 <= status_code /\ status_code < 600 THEN <<"http_error", "medium">>
    ELSE PyNone
  ELSE <<"unknown", "low">>

categorize_error(exception, status_code) ==
  IF exception = "TimeoutError" THEN <<"timeout", "medium">>
  ELSE IF exception = "ClientConnectorError" THEN <<"network", "high">>
  ELSE IF exception = "ClientError" THEN <<"network", "medium">>
  ELSE IF status_code # NoStatus THEN
    IF status_code = 401 THEN <<"auth_error", "high">>
    ELSE IF status_code = 403 THEN <<"auth_error", "high">>
    ELSE IF 400 <= status_code /\ status_code < 500 THEN <<"http_error", "medium">>
    ELSE IF 500 <= status_code /\ status_code < 600 THEN <<"server_error", "high">>
    ELSE PyNone
  ELSE <<"unknown", "low">>

create_error_record(category, severity, user_id, attempt) ==
  [category |-> category, severity |-> severity, user_id |-> user_id,
   attempt |-> attempt,
   retry_eligible |-> category \in {"timeout", "network", "server_error"}]

\* determine_degradation_strategy with the retry test off by one (<= for <).
determine_degradation_strategy_off_by_one(category, severity, attempt, max_attempts) ==
  IF attempt <= max_attempts THEN "continue_journey"
  ELSE IF category = "auth_error" THEN "terminate_journey"
  ELSE IF category = "http_error" /\ severity = "high" THEN "skip_step"
  ELSE IF category \in {"timeout", "network"} THEN "fallback_endpoint"
  ELSE "continue_journey"

determine_degradation_strategy(category, severity, attempt, max_attempts) ==
  IF attempt < max_attempts THEN "continue_journey"
  ELSE IF category = "auth_error" THEN "terminate_journey"
  ELSE IF category = "http_error" /\ severity = "high" THEN "skip_step"
  ELSE IF category \in {"timeout", "network"} THEN "fallback_endpoint"
  ELSE "continue_journey"

status_ok(status) == 200 <= status /\ status < 300

\* ------------------------------------------------------------------- state
VARIABLES
  now,                 \* datetime.now(), in ticks since start_time
  target,              \* the outcomes the target system may answer an HTTP call with
  test_task,           \* the task descriptor taken from the queue
  dsl_data,            \* the plan parse_dsl returned, with the executor's configuration
  main,                \* run_performance_test / run_open_model_test: position and locals
  users,               \* every user/session task created, with its counters and lists
  active_users,        \* run_open_model_test's list of session tasks (indexes into users)
  workload_generator,  \* the WorkloadGenerator instances created (their current_time)
  coordinator,         \* what the coordinator has been sent: results, errors, progress
  test_queue,          \* the consumer's view of the task queue: deliveries and acks
  call                 \* a classifier/policy call under test: arguments and result

vars == <<now, target, test_task, dsl_data, main, users, active_users,
          workload_generator, coordinator, test_queue, call>>

\* Outcomes of one HTTP call as the executor sees them: a response status or
\* an exception raised by the client.
ClientExceptions == {"TimeoutError", "ClientConnectorError", "ClientError", "Exception"}

Outcomes ==
  { [exception |-> NoException, status |-> s] : s \in StatusCodes } \cup
  { [exception |-> e, status |-> NoStatus] : e \in ClientExceptions }

Answer(status) == [exception |-> NoException, status |-> status]

Raise(e) == [exception |-> e, status |-> NoStatus]

\* A step of the plan: parse_dsl's {"method", "path", "payload"} plus the
\* optional "fallback_endpoint" the executor reads.
Endpoints ==
  { [method |-> m, fallback_endpoint |-> f] :
      m \in {"GET", "POST", "HEAD"}, f \in {NoFallback, "/alt"} }

PlainGet == [method |-> "GET", fallback_endpoint |-> NoFallback]

\* Positions of the runner's three nested loops: <<journey, repetition, step>>.
NoPos == <<0, 0, 0>>

AllPos(user_journey) ==
  { p \in (1..Len(user_journey)) \X (1..MaxRepeat + 1) \X (1..MaxSteps + 1) :
      /\ p[2] <= user_journey[p[1]].repeat
      /\ p[3] <= Len(user_journey[p[1]].steps) }

\* An ordering of positions that compares the step before the repetition.
PosLess_step_major(p, q) ==
  \/ p[1] < q[1]
  \/ p[1] = q[1] /\ p[3] < q[3]
  \/ p[1] = q[1] /\ p[3] = q[3] /\ p[2] < q[2]

PosLess(p, q) ==
  \/ p[1] < q[1]
  \/ p[1] = q[1] /\ p[2] < q[2]
  \/ p[1] = q[1] /\ p[2] = q[2] /\ p[3] < q[3]

\* The next iteration of `for journey_step / for _ in range(repeat) / for step`.
NextPos(user_journey, p) ==
  LET later == { q \in AllPos(user_journey) : PosLess(p, q) } IN
  IF later = {} THEN NoPos
  ELSE CHOOSE q \in later : \A r \in later : q = r \/ PosLess(q, r)

StepAt(user_journey, p) == user_journey[p[1]].steps[p[3]]

\* ------------------------------------------------------------ step executor
\* A latency sample (request_end - request_start) is recorded as one unit: its
\* value decides nothing in the engine.
\* The locals of a user/session task: simulate_user_journey / simulate_user_session
\* with execute_user_journey and execute_with_graceful_degradation inlined.
NewUser(user_id, kind, generator, start, duration) ==
  [pc |-> "pacing", user_id |-> user_id, kind |-> kind, generator |-> generator,
   session_start |-> start, session_duration |-> duration,
   pos |-> NoPos, endpoint |-> PlainGet, flat |-> FALSE,
   attempt |-> 0, sent |-> 0, fallback_sent |-> 0, slept |-> 0,
   strategy |-> "None",
   requests |-> 0, successful |-> 0, failed |-> 0, latencies |-> <<>>, errors |-> <<>>]

Return(t, strategy) == [t EXCEPT !.pc = "returned", !.strategy = strategy]

\* The exception handler counting the failure but not the request.
OnException_request_uncounted(t, retry_attempts, e) ==
  LET cs == categorize_error(e, NoStatus)
      error_record == create_error_record(cs[1], cs[2], t.user_id, t.attempt + 1)
  IN IF t.attempt < retry_attempts /\ error_record.retry_eligible
     THEN [t EXCEPT !.attempt = @ + 1, !.slept = @ + 1]
     ELSE Return([t EXCEPT !.failed = @ + 1, !.errors = Append(@, error_record)],
                 determine_degradation_strategy(cs[1], cs[2], t.attempt, retry_attempts))

\* `except Exception as e` of an attempt (lines 178-191).
OnException(t, retry_attempts, e) ==
  LET cs == categorize_error(e, NoStatus)
      error_record == create_error_record(cs[1], cs[2], t.user_id, t.attempt + 1)
  IN IF t.attempt < retry_attempts /\ error_record.retry_eligible
     THEN [t EXCEPT !.attempt = @ + 1, !.slept = @ + 1]
     ELSE Return([t EXCEPT !.requests = @ + 1, !.failed = @ + 1,
                           !.errors = Append(@, error_record)],
                 determine_degradation_strategy(cs[1], cs[2], t.attempt, retry_attempts))

\* The timeout handler with a fixed one-second pause between attempts.
OnTimeout_fixed_sleep(t, retry_attempts) ==
  LET cs == categorize_error("TimeoutError", NoStatus)
      error_record == create_error_record(cs[1], cs[2], t.user_id, t.attempt + 1)
  IN IF t.attempt < retry_attempts
     THEN [t EXCEPT !.attempt = @ + 1, !.slept = @ + 1]
     ELSE Return([t EXCEPT !.requests = @ + 1, !.failed = @ + 1,
                           !.errors = Append(@, error_record)],
                 determine_degradation_strategy(cs[1], cs[2], t.attempt, retry_attempts))

\* `except asyncio.TimeoutError` of an attempt (lines 163-176).
OnTimeout(t, retry_attempts) ==
  LET cs == categorize_error("TimeoutError", NoStatus)
      error_record == create_error_record(cs[1], cs[2], t.user_id, t.attempt + 1)
  IN IF t.attempt < retry_attempts
     THEN [t EXCEPT !.attempt = @ + 1, !.slept = @ + 2 ^ t.attempt]
     ELSE Return([t EXCEPT !.requests = @ + 1, !.failed = @ + 1,
                           !.errors = Append(@, error_record)],
                 determine_degradation_strategy(cs[1], cs[2], t.attempt, retry_attempts))

\* The success branch taking its latency sample on the first attempt only.
OnSuccess_first_attempt_sample(t) ==
  Return([t EXCEPT !.requests = @ + 1, !.successful = @ + 1,
                   !.latencies = IF t.attempt = 0 THEN Append(@, 1) ELSE @],
         "continue_journey")

\* A response with status_ok (lines 130-134).
OnSuccess(t) ==
  Return([t EXCEPT !.requests = @ + 1, !.successful = @ + 1,
                   !.latencies = Append(@, 1)],
         "continue_journey")

\* A response without status_ok (lines 135-161); fo is the outcome of the
\* GET against the fallback URL, should that GET be issued.
OnHttpFailure(t, retry_attempts, status, fo) ==
  LET counted == [t EXCEPT !.requests = @ + 1, !.failed = @ + 1]
      cs == categorize_error(NoException, status)
  IN IF cs = PyNone
     THEN \* `category, severity = None` raises TypeError inside the try block
          OnException(counted, retry_attempts, "TypeError")
     ELSE LET recorded == [counted EXCEPT !.errors =
                 Append(@, create_error_record(cs[1], cs[2], t.user_id, t.attempt + 1))]
              strategy == determine_degradation_strategy(cs[1], cs[2], t.attempt, retry_attempts)
          IN IF strategy = "fallback_endpoint" /\ t.endpoint.fallback_endpoint # NoFallback
             THEN LET tried == [recorded EXCEPT !.fallback_sent = @ + 1] IN
                  IF fo.exception = NoException /\ status_ok(fo.status)
                  THEN Return([tried EXCEPT !.requests = @ + 1, !.successful = @ + 1,
                                            !.latencies = Append(@, 1)], "continue_journey")
                  ELSE Return(tried, strategy)
             ELSE Return(recorded, strategy)

\* One iteration of `for attempt in range(retry_attempts + 1)` (lines 86-191):
\* the request is issued and answered with outcome o.
execute_with_graceful_degradation(t, retry_attempts, o, fo) ==
  IF t.endpoint.method \notin SupportedMethods
  THEN Return(t, "skip_step")
  ELSE LET issued == [t EXCEPT !.sent = @ + 1] IN
       IF o.exception = NoException
       THEN IF status_ok(o.status) THEN OnSuccess(issued)
            ELSE OnHttpFailure(issued, retry_attempts, o.status, fo)
       ELSE IF o.exception = "TimeoutError" THEN OnTimeout(issued, retry_attempts)
       ELSE OnException(issued, retry_attempts, o.exception)

\* A call of the executor begins: its loop variable and the requests it sends.
BeginStep(t, endpoint) ==
  [t EXCEPT !.pc = "attempt", !.endpoint = endpoint, !.attempt = 0, !.sent = 0,
            !.fallback_sent = 0, !.slept = 0, !.strategy = "None"]

\* ------------------------------------------------------------ user actions
Flatten(user_journey) ==
  LET RECURSIVE cat(_)
      cat(i) == IF i > Len(user_journey) THEN <<>>
                ELSE user_journey[i].steps \o cat(i + 1)
  IN cat(1)

\* simulate_user_journey / simulate_user_session after the pacing loop
\* (main.py 314-323, 259-268) up to the first request: execute_user_journey
\* when the plan has named journeys, else one randomly chosen flat step.
EnterJourney(u) ==
  /\ users[u].pc = "journey"
  /\ IF dsl_data.user_journey # <<>>
     THEN LET p == NextPos(dsl_data.user_journey, NoPos) IN
          users' = [users EXCEPT ![u] =
                      IF p = NoPos THEN [@ EXCEPT !.pc = "done"]
                      ELSE BeginStep([@ EXCEPT !.pos = p], StepAt(dsl_data.user_journey, p))]
     ELSE IF dsl_data.steps = <<>>
          THEN \* random.choice([]) raises IndexError out of the task
               users' = [users EXCEPT ![u].pc = "raised"]
          ELSE \E i \in 1..Len(dsl_data.steps) :
                 users' = [users EXCEPT ![u] =
                             BeginStep([@ EXCEPT !.flat = TRUE], dsl_data.steps[i])]
  /\ UNCHANGED <<now, test_queue, target, test_task, dsl_data, main, active_users,
                 workload_generator, coordinator, call>>

\* One attempt of the current step is answered (journey_executor.py 86-191).
Attempt(u) ==
  /\ users[u].pc = "attempt"
  /\ \E o \in target, fo \in target :
       users' = [users EXCEPT ![u] =
                   execute_with_graceful_degradation(@, dsl_data.retry_attempts, o, fo)]
  /\ UNCHANGED <<now, test_queue, target, test_task, dsl_data, main, active_users,
                 workload_generator, coordinator, call>>

\* A runner that gives up after the first step of the journey list.
execute_user_journey_first_step_only(t, user_journey) == [t EXCEPT !.pc = "done"]

\* A runner that goes on to the next step whatever the strategy.
execute_user_journey_ignores_terminate(t, user_journey) ==
  IF t.flat
  THEN [t EXCEPT !.pc = "done"]
  ELSE LET p == NextPos(user_journey, t.pos) IN
       IF p = NoPos THEN [t EXCEPT !.pc = "done"]
       ELSE BeginStep([t EXCEPT !.pos = p], StepAt(user_journey, p))

\* What the caller does with the returned strategy: execute_user_journey
\* (journey_executor.py 211-216) or the flat-step path (main.py 324-340).
execute_user_journey(t, user_journey) ==
  IF t.flat \/ t.strategy = "terminate_journey"
  THEN [t EXCEPT !.pc = "done"]
  ELSE LET p == NextPos(user_journey, t.pos) IN
       IF p = NoPos THEN [t EXCEPT !.pc = "done"]
       ELSE BeginStep([t EXCEPT !.pos = p], StepAt(user_journey, p))

Runner(u) ==
  /\ users[u].pc = "returned"
  /\ users' = [users EXCEPT ![u] = execute_user_journey(@, dsl_data.user_journey)]
  /\ UNCHANGED <<now, test_queue, target, test_task, dsl_data, main, active_users,
                 workload_generator, coordinator, call>>

\* ------------------------------------------- one user's journey, any target
StepLists(E) == UNION { [1..n -> E] : n \in 0..MaxSteps }

JourneyLists(E) ==
  UNION { [1..n -> [steps : StepLists(E), repeat : 0..MaxRepeat]] : n \in 0..MaxJourneys }

\* The step executions a journey list asks for.
Work(user_journey) ==
  LET RECURSIVE sum(_)
      sum(i) == IF i > Len(user_journey) THEN 0
                ELSE user_journey[i].repeat * Len(user_journey[i].steps) + sum(i + 1)
  IN sum(1)

\* Plans for the executor: one journey of one step, over every kind of endpoint.
StepPlans ==
  { [user_journey |-> <<[steps |-> <<e>>, repeat |-> 1]>>, steps |-> <<e>>] : e \in Endpoints }

\* Plans for the runner: every shape of journey list over a plain GET step,
\* and the plans without named journeys.
JourneyPlans ==
  { [user_journey |-> uj, steps |-> Flatten(uj)] :
      uj \in { l \in JourneyLists({PlainGet}) : l # <<>> /\ Work(l) <= MaxWork } }
  \cup { [user_journey |-> <<>>, steps |-> s] : s \in StepLists({PlainGet}) }

\* A step with a method the executor does not dispatch (it is skipped).
PlainHead == [method |-> "HEAD", fallback_endpoint |-> NoFallback]

\* Plans whose first step is skipped: an undispatched method, then a GET.
SkipPlans ==
  { [user_journey |-> <<[steps |-> <<PlainHead, PlainGet>>, repeat |-> r]>>,
     steps |-> <<PlainHead, PlainGet>>] : r \in 1..MaxRepeat }

\* A target answers every call with one of at most two outcomes.
Targets == { {a, b} : a \in Outcomes, b \in Outcomes }

\* A target that answers with one outcome, or with that outcome or a 200.
SteadyTargets == { {a} : a \in Outcomes } \cup { {a, Answer(200)} : a \in Outcomes }

NoCall == [fn |-> "None"]

Unbound == "unbound"

NoMain == [pc |-> "None", test_id |-> Unbound]

NoCoordinator == [results |-> <<>>, errors |-> <<>>, progress |-> <<>>]

\* No consumer is attached.
NoQueue == [messages |-> <<>>]

InitJourney ==
  /\ now = 0
  /\ target \in Targets
  /\ test_task = [test_id |-> "t1"]
  /\ \E plan \in StepPlans \cup JourneyPlans \cup SkipPlans, r \in 0..MaxRetry :
       /\ dsl_data = [user_journey |-> plan.user_journey, steps |-> plan.steps,
                      retry_attempts |-> r]
       /\ plan \in JourneyPlans \cup SkipPlans => target \in SteadyTargets
  /\ main = NoMain
  /\ users = <<[NewUser(0, "user", 1, 0, 0) EXCEPT !.pc = "journey"]>>
  /\ active_users = <<>>
  /\ workload_generator = <<>>
  /\ coordinator = NoCoordinator
  /\ test_queue = NoQueue
  /\ call = NoCall

NextJourney == \E u \in DOMAIN users : EnterJourney(u) \/ Attempt(u) \/ Runner(u)

SpecJourney == InitJourney /\ [][NextJourney]_vars

\* ------------------------------------------------------ population simulator
Finished(t) == t.pc \in {"done", "raised"}

Range(seq) == { seq[i] : i \in DOMAIN seq }

\* WorkloadGenerator.update_time on instance g.
update_time(generators, g, elapsed_time) ==
  [generators EXCEPT ![g].current_time = elapsed_time]

\* WorkloadGenerator.get_session_duration: min(expovariate(1 / mean), 3 * mean)
\* in the open model, drawn at the two ends of its range, else the test
\* duration.
get_session_duration(d) ==
  IF d.user_model = "open" /\ d.session_duration # 0
  THEN {0, 3 * d.session_duration}
  ELSE {d.test_duration}

\* An arrival test that lets a session arrive at rate 0.
may_arrive_at_zero(arrival_rate) == 0 <= arrival_rate

\* random.random() < min(arrival_rate * 0.1, 1.0) can come out true.
may_arrive(arrival_rate) == 0 < arrival_rate

\* random.random() < min(arrival_rate * 0.1, 1.0) can come out false.
may_not_arrive(arrival_rate) == arrival_rate < 10

SumSeq(seq) ==
  LET RECURSIVE sum(_)
      sum(i) == IF i > Len(seq) THEN 0 ELSE seq[i] + sum(i + 1)
  IN sum(1)

ConcatSeq(seqs) ==
  LET RECURSIVE cat(_)
      cat(i) == IF i > Len(seqs) THEN <<>> ELSE seqs[i] \o cat(i + 1)
  IN cat(1)

MaxOf(seq) == IF seq = <<>> THEN 0 ELSE CHOOSE x \in Range(seq) : \A y \in Range(seq) : y <= x

MinOf(seq) == IF seq = <<>> THEN 0 ELSE CHOOSE x \in Range(seq) : \A y \in Range(seq) : x <= y

\* The dict a user/session task returns (main.py 334-340, 279-285).
SessionOutcome(t) ==
  [requests |-> t.requests, successful |-> t.successful, failed |-> t.failed,
   latencies |-> t.latencies, errors |-> t.errors]

\* run_performance_test 131-158: the TestResult built from the task results.
TestResult(test_id, results) ==
  LET latencies == ConcatSeq([i \in DOMAIN results |-> results[i].latencies])
      total_latency == SumSeq(latencies)
  IN [test_id |-> test_id,
      total_requests |-> SumSeq([i \in DOMAIN results |-> results[i].requests]),
      successful_requests |-> SumSeq([i \in DOMAIN results |-> results[i].successful]),
      failed_requests |-> SumSeq([i \in DOMAIN results |-> results[i].failed]),
      total_latency |-> total_latency,
      max_latency |-> MaxOf(latencies),
      min_latency |-> MinOf(latencies),
      avg_latency |-> IF latencies # <<>> THEN total_latency \div Len(latencies) ELSE 0,
      n_latencies |-> Len(latencies),
      error_details |-> ConcatSeq([i \in DOMAIN results |-> results[i].errors])]

\* TestResult.success_rate / failure_rate, in whole percent.
success_rate(r) ==
  IF r.total_requests = 0 THEN 0 ELSE (r.successful_requests * 100) \div r.total_requests

failure_rate(r) ==
  IF r.total_requests = 0 THEN 0 ELSE (r.failed_requests * 100) \div r.total_requests

\* run_performance_test up to its first await (main.py 73-127, 163-165, and
\* run_open_model_test 171-184): parse, read the task, create the generator
\* and the user tasks, or report the failure.
StartTest ==
  /\ main.pc = "start"
  /\ IF test_task.dsl_script = "unparsable"
     THEN \* parse_dsl raises at line 75; the handler's log line reads test_id,
          \* which is not bound yet, and raises in turn
          /\ main' = [main EXCEPT !.pc = "escaped"]
          /\ UNCHANGED <<users, workload_generator, coordinator>>
     ELSE IF test_task.target_url = "missing"
     THEN \* KeyError at line 78, test_id bound at line 77
          /\ main' = [main EXCEPT !.pc = "failed", !.test_id = test_task.test_id]
          /\ coordinator' = [coordinator EXCEPT !.errors =
                               Append(@, [test_id |-> test_task.test_id,
                                          error |-> "KeyError"])]
          /\ UNCHANGED <<users, workload_generator>>
     ELSE /\ workload_generator' = <<[current_time |-> 0]>>
          /\ main' = [main EXCEPT !.test_id = test_task.test_id,
                        !.pc = IF dsl_data.user_model = "open" THEN "open_loop" ELSE "gather"]
          /\ users' = IF dsl_data.user_model = "open" THEN <<>>
                      ELSE [i \in 1..dsl_data.num_users |-> NewUser(i - 1, "user", 1, 0, 0)]
          /\ UNCHANGED coordinator
  /\ UNCHANGED <<now, test_queue, target, test_task, dsl_data, active_users, call>>

\* The wall clock advances while the test runs.
Tick ==
  /\ main.pc = "open_loop" \/ \E u \in DOMAIN users : users[u].pc = "pacing"
  /\ now < MaxTime
  /\ now' = now + 1
  /\ UNCHANGED <<test_queue, target, test_task, dsl_data, main, users, active_users,
                 workload_generator, coordinator, call>>

\* A pacing loop that leaves for the journey without looking at the clock.
Pace_no_wait(u) ==
  /\ users[u].pc = "pacing"
  /\ users' = [users EXCEPT ![u].pc = "journey"]
  /\ UNCHANGED <<now, test_queue, target, test_task, dsl_data, main, active_users,
                 workload_generator, coordinator, call>>

\* One iteration of a task's pacing loop (simulate_user_journey 303-312,
\* simulate_user_session 247-257).
Pace(u) ==
  /\ users[u].pc = "pacing"
  /\ IF users[u].kind = "user"
     THEN /\ workload_generator' = update_time(workload_generator, users[u].generator, now)
          /\ users' = [users EXCEPT ![u].pc =
                         IF now >= dsl_data.test_duration THEN "journey" ELSE "pacing"]
     ELSE IF now - users[u].session_start >= users[u].session_duration
          THEN /\ users' = [users EXCEPT ![u].pc = "journey"]
               /\ UNCHANGED workload_generator
          ELSE /\ workload_generator' = update_time(workload_generator, users[u].generator, now)
               /\ UNCHANGED users
  /\ UNCHANGED <<now, test_queue, target, test_task, dsl_data, main, active_users, coordinator, call>>

\* `[task for task in active_users if not task.done()]`
Prune(tasks, active) == SelectSeq(active, LAMBDA i : ~Finished(tasks[i]))

\* One iteration of run_open_model_test's arrival loop (main.py 187-205).
ArrivalTick ==
  /\ main.pc = "open_loop"
  /\ \/ /\ now >= dsl_data.test_duration
        /\ main' = [main EXCEPT !.pc = "drain"]
        /\ UNCHANGED <<users, active_users>>
     \/ /\ now < dsl_data.test_duration
        /\ may_arrive(dsl_data.arrival_rate)
        /\ Len(users) < MaxSessions
        /\ \E session_duration \in get_session_duration(dsl_data) :
             users' = Append(users, NewUser(Len(active_users), "session", 1,
                                            now, session_duration))
        /\ active_users' = Prune(users', Append(active_users, Len(users) + 1))
        /\ UNCHANGED main
     \/ /\ now < dsl_data.test_duration
        /\ may_not_arrive(dsl_data.arrival_rate)
        /\ active_users' = Prune(users, active_users)
        /\ UNCHANGED <<main, users>>
  /\ UNCHANGED <<now, test_queue, target, test_task, dsl_data, workload_generator, coordinator, call>>

\* The results the aggregation loop sees: every gathered user task (closed
\* model, main.py 127) or the tasks still in active_users (open model,
\* main.py 216-226); a task that raised contributes no dict.
CollectedResults ==
  LET tasks == IF main.pc = "gather" THEN [i \in DOMAIN users |-> users[i]]
               ELSE [k \in DOMAIN active_users |-> users[active_users[k]]]
      done == SelectSeq(tasks, LAMBDA t : t.pc = "done")
  IN [i \in DOMAIN done |-> SessionOutcome(done[i])]

\* An aggregation that does not wait for the tasks it awaits.
Finish_without_waiting ==
  /\ main.pc \in {"gather", "drain"}
  /\ coordinator' = [coordinator EXCEPT !.results =
                       Append(@, TestResult(main.test_id, CollectedResults))]
  /\ main' = [main EXCEPT !.pc = "done"]
  /\ UNCHANGED <<now, test_queue, target, test_task, dsl_data, users, active_users,
                 workload_generator, call>>

\* All awaited tasks are done: aggregate and post the TestResult
\* (main.py 127-160, 207-226).
Finish ==
  /\ main.pc \in {"gather", "drain"}
  /\ \A i \in (IF main.pc = "gather" THEN DOMAIN users ELSE Range(active_users)) :
       Finished(users[i])
  /\ coordinator' = [coordinator EXCEPT !.results =
                       Append(@, TestResult(main.test_id, CollectedResults))]
  /\ main' = [main EXCEPT !.pc = "done"]
  /\ UNCHANGED <<now, test_queue, target, test_task, dsl_data, users, active_users,
                 workload_generator, call>>

\* Task descriptors: a script parse_dsl accepts or one it raises on (a JSON
\* value that is no string, a payload nested past the recursion limit), with
\* or without the target_url key.
TestTasks ==
  { [test_id |-> "t1", dsl_script |-> s, target_url |-> u] :
      s \in {"script", "unparsable"}, u \in {"http://target", "missing"} }

\* Whole-test plans: journeys with at least one step and repeat >= 1, and
\* the plans without named journeys.
TestPlans ==
  { [user_journey |-> uj, steps |-> Flatten(uj)] :
      uj \in { l \in JourneyLists({PlainGet}) :
                 /\ l # <<>>
                 /\ Work(l) <= MaxTestWork
                 /\ \A i \in DOMAIN l : l[i].repeat >= 1 /\ l[i].steps # <<>> } }
  \cup { [user_journey |-> <<>>, steps |-> s] : s \in StepLists({PlainGet}) }

TestTargets == { {Answer(200)}, {Answer(200), Answer(401)}, {Answer(500)} }

\* Plans of an open-model test: one journey of one step, or no named journey
\* and a flat step list of zero or one step.
OpenPlans ==
  { [user_journey |-> <<[steps |-> <<PlainGet>>, repeat |-> 1]>>, steps |-> <<PlainGet>>],
    [user_journey |-> <<>>, steps |-> <<PlainGet>>],
    [user_journey |-> <<>>, steps |-> <<>>] }

\* arrival_rate in users per second; session_duration mean in ticks (0: None)
ArrivalRates == {0, 1, 10}

SessionMeans == {0, 1}

InitCommon ==
  /\ now = 0
  /\ target \in TestTargets
  /\ main = [pc |-> "start", test_id |-> Unbound]
  /\ users = <<>>
  /\ active_users = <<>>
  /\ workload_generator = <<>>
  /\ coordinator = NoCoordinator
  /\ test_queue = NoQueue
  /\ call = NoCall

\* A closed-model test, or a task whose processing fails before any user runs.
InitClosed ==
  /\ InitCommon
  /\ test_task \in TestTasks
  /\ \E plan \in TestPlans, r \in {0, MaxRetry}, n \in 0..MaxUsers, d \in 1..MaxDuration :
       /\ (test_task.dsl_script = "unparsable" \/ test_task.target_url = "missing")
            => /\ n = 1 /\ d = 1 /\ r = 0
               /\ plan.user_journey = <<>> /\ plan.steps = <<>>
               /\ target = {Answer(200)}
       /\ dsl_data = [user_journey |-> plan.user_journey, steps |-> plan.steps,
                      retry_attempts |-> r, user_model |-> "closed", num_users |-> n,
                      test_duration |-> d, arrival_rate |-> 0, session_duration |-> 0]

NextClosed ==
  \/ StartTest
  \/ Tick
  \/ Finish
  \/ \E u \in DOMAIN users : Pace(u) \/ EnterJourney(u) \/ Attempt(u) \/ Runner(u)

SpecClosed == InitClosed /\ [][NextClosed]_vars

\* An open-model test: run_open_model_test with the plan it is handed.
InitOpen ==
  /\ InitCommon
  /\ test_task = [test_id |-> "t1", dsl_script |-> "script", target_url |-> "http://target"]
  /\ \E plan \in OpenPlans, r \in {0, MaxRetry}, d \in 1..MaxDuration,
        rate \in ArrivalRates, mean \in SessionMeans :
       dsl_data = [user_journey |-> plan.user_journey, steps |-> plan.steps,
                   retry_attempts |-> r, user_model |-> "open", num_users |-> 1,
                   test_duration |-> d, arrival_rate |-> rate,
                   session_duration |-> mean]

NextOpen ==
  \/ StartTest
  \/ Tick
  \/ ArrivalTick
  \/ Finish
  \/ \E u \in DOMAIN users : Pace(u) \/ EnterJourney(u) \/ Attempt(u) \/ Runner(u)

SpecOpen == InitOpen /\ [][NextOpen]_vars

\* ---------------------------------------------------- the progress reporter
\* The progress task of a test: where track_progress is suspended, the elapsed
\* time it last read, the tick its sleep ends at, and whether a cancellation
\* was requested and has not been delivered yet.
NoProgressTask == [pc |-> "None", elapsed |-> 0, wake_at |-> 0, must_cancel |-> FALSE]

\* max(1, test_duration // 10)
progress_update_interval ==
  IF dsl_data.test_duration \div 10 > 1 THEN dsl_data.test_duration \div 10 ELSE 1

\* asyncio.create_task(track_progress(...)): the task exists and has not run.
create_task == [NoProgressTask EXCEPT !.pc = "created"]

\* progress_task.cancel(): a finished task is left alone, any other gets
\* CancelledError thrown in at the await it is suspended on, the next time the
\* event loop steps it.
cancel(task) ==
  IF task.pc \in {"done", "cancelled"} THEN task ELSE [task EXCEPT !.must_cancel = TRUE]

\* `await asyncio.sleep(update_interval)` begins.
Sleep(task) == [task EXCEPT !.pc = "sleep", !.wake_at = now + progress_update_interval]

\* send_progress_update has returned: `if elapsed >= test_duration: break`,
\* else the next iteration of `while True`.
AfterSend(task) ==
  IF task.elapsed >= dsl_data.test_duration THEN [task EXCEPT !.pc = "done"]
  ELSE Sleep(task)

\* min((elapsed / test_duration) * 100, 100.0), in whole percent
progress(elapsed) ==
  IF elapsed >= dsl_data.test_duration THEN 100
  ELSE (elapsed * 100) \div dsl_data.test_duration

\* A delivery of CancelledError that send_progress_update's `except Exception`
\* swallows, so that track_progress goes on with its loop.
Cancelled_swallowed_by_send(task) ==
  IF task.pc = "post" THEN [AfterSend(task) EXCEPT !.must_cancel = FALSE]
  ELSE [task EXCEPT !.pc = "cancelled", !.must_cancel = FALSE]

\* CancelledError is delivered: before the first step the coroutine never
\* runs; in the sleep, track_progress's `except asyncio.CancelledError: pass`
\* ends the task; inside send_progress_update `except Exception` does not
\* catch it (CancelledError is a BaseException) and it reaches the same clause.
Cancelled(task) == [task EXCEPT !.pc = "cancelled", !.must_cancel = FALSE]

\* One step of the progress task (main.py 367-402): start and sleep; wake up,
\* read the clock and post the update; get the answer and loop or break.
track_progress ==
  LET task == main.progress_task IN
  /\ task.pc \in {"created", "sleep", "post"}
  /\ IF task.must_cancel
     THEN /\ main' = [main EXCEPT !.progress_task = Cancelled(task)]
          /\ UNCHANGED coordinator
     ELSE IF task.pc = "created"
     THEN /\ main' = [main EXCEPT !.progress_task = Sleep(task)]
          /\ UNCHANGED coordinator
     ELSE IF task.pc = "sleep"
     THEN /\ now >= task.wake_at
          /\ main' = [main EXCEPT !.progress_task =
                        [task EXCEPT !.pc = "post", !.elapsed = now]]
          /\ coordinator' = [coordinator EXCEPT !.progress =
                               Append(@, [test_id |-> main.test_id,
                                          progress |-> progress(now)])]
     ELSE /\ main' = [main EXCEPT !.progress_task = AfterSend(task)]
          /\ UNCHANGED coordinator
  /\ UNCHANGED <<now, test_queue, target, test_task, dsl_data, users, active_users,
                 workload_generator, call>>

\* run_performance_test / run_open_model_test up to the first await, for a
\* task that parses (main.py 73-127, 171-184): the generator, the user tasks
\* of the closed model and the progress task are created.
StartTracked ==
  /\ main.pc = "start"
  /\ workload_generator' = <<[current_time |-> 0]>>
  /\ main' = [main EXCEPT !.test_id = test_task.test_id,
                          !.progress_task = create_task,
                          !.pc = IF dsl_data.user_model = "open" THEN "open_loop"
                                 ELSE "gather"]
  /\ users' = IF dsl_data.user_model = "open" THEN <<>>
              ELSE [i \in 1..dsl_data.num_users |-> NewUser(i - 1, "user", 1, 0, 0)]
  /\ UNCHANGED <<now, test_queue, target, test_task, dsl_data, active_users,
                 coordinator, call>>

\* The awaited tasks are done (main.py 127-158, 207-226): the progress task
\* is cancelled and the results are collected and aggregated, up to the await
\* in send_results_to_coordinator.
CancelProgress ==
  /\ main.pc \in {"gather", "drain"}
  /\ \A i \in (IF main.pc = "gather" THEN DOMAIN users ELSE Range(active_users)) :
       Finished(users[i])
  /\ main' = [main EXCEPT !.pc = "send_results",
                          !.results = CollectedResults,
                          !.progress_task = cancel(@)]
  /\ UNCHANGED <<now, test_queue, target, test_task, dsl_data, users, active_users,
                 workload_generator, coordinator, call>>

\* send_results_to_coordinator (main.py 345-365): the TestResult is posted.
SendResults ==
  /\ main.pc = "send_results"
  /\ coordinator' = [coordinator EXCEPT !.results =
                       Append(@, TestResult(main.test_id, main.results))]
  /\ main' = [main EXCEPT !.pc = "done"]
  /\ UNCHANGED <<now, test_queue, target, test_task, dsl_data, users, active_users,
                 workload_generator, call>>

\* The wall clock advances as long as the test has not finished.
Clock ==
  /\ main.pc # "done"
  /\ now < MaxTime
  /\ now' = now + 1
  /\ UNCHANGED <<test_queue, target, test_task, dsl_data, main, users, active_users,
                 workload_generator, coordinator, call>>

\* A test of either user model against a target that answers 200, with
\* progress_update_interval 1 and a duration of one tick or more.
InitProgress ==
  /\ now = 0
  /\ target = {Answer(200)}
  /\ test_task = [test_id |-> "t1", dsl_script |-> "script", target_url |-> "http://target"]
  /\ \E plan \in OpenPlans, m \in {"closed", "open"}, n \in 0..MaxUsers,
        d \in 1..MaxDuration + 1, rate \in {0, 10} :
       /\ m = "open" => n = 1
       /\ m = "closed" => rate = 0
       /\ dsl_data = [user_journey |-> plan.user_journey, steps |-> plan.steps,
                      retry_attempts |-> 0, user_model |-> m, num_users |-> n,
                      test_duration |-> d, arrival_rate |-> rate,
                      session_duration |-> 0]
  /\ main = [pc |-> "start", test_id |-> Unbound, results |-> <<>>,
             progress_task |-> NoProgressTask]
  /\ users = <<>>
  /\ active_users = <<>>
  /\ workload_generator = <<>>
  /\ coordinator = NoCoordinator
  /\ test_queue = NoQueue
  /\ call = NoCall

NextProgress ==
  \/ StartTracked
  \/ Clock
  \/ ArrivalTick
  \/ CancelProgress
  \/ SendResults
  \/ track_progress
  \/ \E u \in DOMAIN users : Pace(u) \/ EnterJourney(u) \/ Attempt(u) \/ Runner(u)

SpecProgress == InitProgress /\ [][NextProgress]_vars

\* ------------------------------------------------------------- DSL compiler
\* A script is a sequence of lines. A line is kept as what parse_dsl reads of
\* it: the branch its prefix selects (kind) and the text after the prefix.
\* The text of a number is [ok |-> TRUE, n |-> its value], any other text is
\* [ok |-> FALSE]: int() and float() raise ValueError on the latter.
Num(n) == [ok |-> TRUE, n |-> n]

NotANumber == [ok |-> FALSE, n |-> 0]

\* A conversion that yields 0 for a text that is no number.
int_or_zero(text, default) == IF text.ok THEN text.n ELSE 0

\* A conversion that never reads the text.
int_or_default_only(text, default) == default

\* `try: int(text) except (ValueError, IndexError): default`
int_or(text, default) == IF text.ok THEN text.n ELSE default

Patterns == {"burst", "steady", "ramp_up", "daily_cycle", "spike", "gradual_ramp"}

\* The pattern_config directives and their fallback values (DSL/main.py
\* 45-90); fractional values are in tenths.
ConfigDefaults ==
  [peak_hours |-> <<9, 10, 11, 14, 15, 16>>, off_peak_multiplier |-> 3,
   base_delay |-> 10, spike_interval |-> 120, spike_duration |-> 30,
   spike_intensity |-> 50, start_delay |-> 30, end_delay |-> 5, ramp_steps |-> 10]

\* The text of a peak_hours line: a comma-separated list of integers, or a
\* text with an item int() raises ValueError on.
Hours(h) == [ok |-> TRUE, n |-> h]

NotHours == [ok |-> FALSE, n |-> <<>>]

\* method.upper()
upper(method) ==
  CASE method = "get" -> "GET"
    [] method = "post" -> "POST"
    [] method = "head" -> "HEAD"
    [] OTHER -> method

\* json.loads of a payload text: a valid object, invalid JSON (JSONDecodeError,
\* caught: payload None), or an object nested past the recursion limit
\* (RecursionError, not caught).
Payloads == {"absent", "valid", "invalid", "deep"}

\* dict.get(key, default)
Get(d, key, default) == IF key \in DOMAIN d THEN d[key] ELSE default

\* d[key] = value
Put(d, key, value) ==
  [k \in DOMAIN d \cup {key} |-> IF k = key THEN value ELSE d[k]]

\* A line that is no step line: its branch, the word after the prefix (a
\* name, or the key of a directive without a branch) and the number text.
Line(kind, word, text) ==
  [kind |-> kind, word |-> word, text |-> text,
   method |-> "", path |-> "", payload |-> "absent", matches |-> FALSE]

\* A line starting with "-"; matches: the step regex (DSL/main.py 114) matches.
StepLine(method, path, payload, matches) ==
  [kind |-> "step", word |-> "", text |-> NotANumber,
   method |-> method, path |-> path, payload |-> payload, matches |-> matches]

\* The locals of parse_dsl before its loop (DSL/main.py 15-21);
\* current_journey_step is the index of the open journey in user_journey, 0
\* for None.
ParserStart ==
  [steps |-> <<>>, user_journey |-> <<>>, num_users |-> 1, test_duration |-> 60,
   workload_pattern |-> "steady", pattern_config |-> <<>>,
   current_journey_step |-> 0, raised |-> "None"]

\* A step that goes to the open journey only, when there is one.
append_step_to_journey_only(st, step) ==
  IF st.current_journey_step # 0
  THEN [st EXCEPT !.user_journey[st.current_journey_step].steps = Append(@, step)]
  ELSE [st EXCEPT !.steps = Append(@, step)]

\* `steps.append(step)` and, with a journey open,
\* `current_journey_step["steps"].append(step)` (DSL/main.py 133-136).
append_step(st, step) ==
  IF st.current_journey_step # 0
  THEN [st EXCEPT !.steps = Append(@, step),
                  !.user_journey[st.current_journey_step].steps = Append(@, step)]
  ELSE [st EXCEPT !.steps = Append(@, step)]

\* A repeat line that, with no journey open, counts for the last journey.
set_repeat_of_last_journey(st, text) ==
  IF st.user_journey # <<>>
  THEN [st EXCEPT !.user_journey[IF st.current_journey_step # 0
                                 THEN st.current_journey_step
                                 ELSE Len(st.user_journey)].repeat = int_or(text, 1)]
  ELSE st

\* The `repeat:` branch (DSL/main.py 100-106).
set_repeat(st, text) ==
  IF st.current_journey_step # 0
  THEN [st EXCEPT !.user_journey[st.current_journey_step].repeat = int_or(text, 1)]
  ELSE st

\* One iteration of `for line in lines` (DSL/main.py 26-138).
parse_line(st, line) ==
  CASE line.kind \in {"blank", "comment"} -> st
    [] line.kind = "users" -> [st EXCEPT !.num_users = int_or(line.text, 1)]
    [] line.kind = "duration" -> [st EXCEPT !.test_duration = int_or(line.text, 60)]
    [] line.kind = "pattern" ->
         IF line.word \in Patterns THEN [st EXCEPT !.workload_pattern = line.word] ELSE st
    [] line.kind = "config" ->
         [st EXCEPT !.pattern_config =
            Put(@, line.word, IF line.text.ok THEN line.text.n
                              ELSE ConfigDefaults[line.word])]
    [] line.kind = "peak_hours" ->
         [st EXCEPT !.pattern_config =
            Put(@, "peak_hours", IF line.text.ok THEN line.text.n
                                 ELSE ConfigDefaults.peak_hours)]
    [] line.kind = "journey" ->
         [st EXCEPT !.user_journey = Append(@, [name |-> line.word, steps |-> <<>>,
                                                repeat |-> 1, condition |-> "None"]),
                    !.current_journey_step = Len(st.user_journey) + 1]
    [] line.kind = "repeat" -> set_repeat(st, line.text)
    [] line.kind = "if" ->
         IF st.current_journey_step # 0
         THEN [st EXCEPT !.user_journey[st.current_journey_step].condition = line.word]
         ELSE st
    [] line.kind = "end" -> [st EXCEPT !.current_journey_step = 0]
    [] line.kind = "step" ->
         IF ~line.matches THEN st
         ELSE IF line.payload = "deep" THEN [st EXCEPT !.raised = "RecursionError"]
         ELSE LET step == [method |-> upper(line.method), path |-> line.path,
                           payload |-> IF line.payload = "valid" THEN "object"
                                       ELSE "None"]
              IN append_step(st, step)
    [] OTHER -> st

\* A parser whose plan has no user at all, whatever the script.
parse_dsl_empty_population(dsl_script) ==
  [raised |-> "None", num_users |-> 0, test_duration |-> 60,
   workload_pattern |-> "steady", steps |-> <<>>, user_journey |-> <<>>]

\* parse_dsl (DSL/main.py 5-147): the plan returned, or the exception raised.
parse_dsl(dsl_script) ==
  LET RECURSIVE loop(_, _)
      loop(st, i) ==
        IF i > Len(dsl_script) \/ st.raised # "None" THEN st
        ELSE loop(parse_line(st, dsl_script[i]), i + 1)
      st == loop(ParserStart, 1)
  IN IF \A i \in DOMAIN dsl_script : dsl_script[i].kind = "blank"
     THEN [raised |-> "None", num_users |-> 1, test_duration |-> 60,
           workload_pattern |-> "steady", steps |-> <<>>, user_journey |-> <<>>]
     ELSE IF st.raised # "None" THEN [raised |-> st.raised]
     ELSE [raised |-> "None", num_users |-> st.num_users,
           test_duration |-> st.test_duration,
           workload_pattern |-> st.workload_pattern,
           pattern_config |-> st.pattern_config,
           steps |-> st.steps, user_journey |-> st.user_journey]

\* What run_performance_test reads from the plan (main.py 79-91).
worker_config(plan) ==
  [num_users |-> Get(plan, "num_users", 1),
   test_duration |-> Get(plan, "test_duration", 60),
   user_model |-> Get(plan, "user_model", "closed"),
   arrival_rate |-> Get(plan, "arrival_rate", "None"),
   session_duration |-> Get(plan, "session_duration", "None"),
   timeout |-> Get(plan, "timeout", 30),
   retry_attempts |-> Get(plan, "retry_attempts", 3)]

\* Lines of every branch of the parser: blank and comment lines; users and
\* duration with negative, zero, positive and non-numeric text; a known and an
\* unknown pattern; a pattern_config directive; the directives that have no
\* branch (`user_model: open`, `arrival_rate: 2`, `session_duration: 3`,
\* `timeout: 10`, `retry_attempts: 5`); journey, repeat and end; well-formed
\* and malformed step lines.
AllLines ==
  {Line("blank", "", NotANumber), Line("comment", "", NotANumber)}
  \cup { Line("users", "", t) : t \in {Num(-1), Num(0), Num(3), NotANumber} }
  \cup { Line("duration", "", t) : t \in {Num(0), Num(5), NotANumber} }
  \cup { Line("pattern", w, NotANumber) : w \in {"burst", "bogus"} }
  \cup { Line("config", "base_delay", t) : t \in {Num(20), NotANumber} }
  \cup { Line("other", "user_model", NotANumber), Line("other", "arrival_rate", Num(2)),
         Line("other", "session_duration", Num(3)), Line("other", "timeout", Num(10)),
         Line("other", "retry_attempts", Num(5)) }
  \cup { Line("journey", "a", NotANumber), Line("repeat", "", Num(2)),
         Line("end", "", NotANumber) }
  \cup { StepLine("get", "/x", p, TRUE) : p \in {"absent", "invalid", "deep"} }
  \cup { StepLine("", "", "absent", FALSE) }

\* Lines of journey scripts: two journeys, two steps, a repeat count, end.
JourneyLines ==
  { Line("journey", "a", NotANumber), Line("journey", "b", NotANumber),
    Line("repeat", "", Num(2)), Line("end", "", NotANumber),
    StepLine("GET", "/x", "absent", TRUE), StepLine("post", "/y", "valid", TRUE) }

\* Lines around one journey: repeat counts of every sign and a text that is
\* no number, a condition, end, a step.
DirectiveLines ==
  { Line("journey", "a", NotANumber), Line("if", "cond", NotANumber),
    Line("end", "", NotANumber), StepLine("GET", "/x", "absent", TRUE) }
  \cup { Line("repeat", "", t) : t \in {Num(-1), Num(0), Num(2), NotANumber} }

\* The numeric pattern_config directives other than peak_hours.
ConfigKeys == DOMAIN ConfigDefaults \ {"peak_hours"}

\* Every numeric directive with a text that converts and one that does not.
NumericLines ==
  { Line("users", "", t) : t \in {Num(3), NotANumber} }
  \cup { Line("duration", "", t) : t \in {Num(5), NotANumber} }
  \cup { Line("config", k, t) : k \in ConfigKeys, t \in {Num(7), NotANumber} }
  \cup { Line("peak_hours", "", t) : t \in {Hours(<<8, 17>>), NotHours} }
  \cup { Line("journey", "a", NotANumber) }
  \cup { Line("repeat", "", t) : t \in {Num(2), NotANumber} }

Scripts ==
  UNION { [1..n -> AllLines] : n \in 0..MaxLines }
  \cup UNION { [1..n -> JourneyLines] : n \in 0..MaxJourneyLines }
  \cup UNION { [1..n -> DirectiveLines] : n \in 0..MaxDirectiveLines }
  \cup UNION { [1..n -> NumericLines] : n \in 0..MaxNumericLines }

InitParser ==
  /\ now = 0
  /\ target = {}
  /\ test_task = [test_id |-> "t1"]
  /\ dsl_data = [user_journey |-> <<>>, steps |-> <<>>, retry_attempts |-> 0]
  /\ main = NoMain
  /\ users = <<>>
  /\ active_users = <<>>
  /\ workload_generator = <<>>
  /\ coordinator = NoCoordinator
  /\ test_queue = NoQueue
  /\ \E dsl_script \in Scripts :
       call = [fn |-> "parse_dsl", dsl_script |-> dsl_script, returned |-> FALSE,
               result |-> [raised |-> "None"], config |-> PyNone]

\* run_performance_test parses the script and reads its configuration from
\* the plan (main.py 74-91).
CallParser ==
  /\ call.fn = "parse_dsl"
  /\ ~call.returned
  /\ LET plan == parse_dsl(call.dsl_script) IN
     call' = [call EXCEPT !.returned = TRUE, !.result = plan,
                          !.config = IF plan.raised = "None" THEN worker_config(plan)
                                     ELSE PyNone]
  /\ UNCHANGED <<now, test_queue, target, test_task, dsl_data, main, users, active_users,
                 workload_generator, coordinator>>

NextParser == CallParser

SpecParser == InitParser /\ [][NextParser]_vars

\* -------------------------------------------------------- workload generator
\* Delays are in units of 0.1 ms, pattern_config values in tenths as above.
\* A draw of random.uniform(a, b) is a + (b - a) * r / 100 for r in Draws.
Draws == {0, 50, 100}

\* min(x, y)
Min(x, y) == IF x <= y THEN x ELSE y

\* WorkloadGenerator.get_next_delay (workload_generator.py 21-89) for the
\* patterns steady and gradual_ramp, with draw r of its random.uniform.
get_next_delay(g, r) ==
  IF g.pattern = "steady" THEN 5000 + 100 * r
  ELSE LET start_delay == Get(g.pattern_config, "start_delay", 30)
           end_delay == Get(g.pattern_config, "end_delay", 5)
           ramp_steps == Get(g.pattern_config, "ramp_steps", 10)
           \* int((current_time / duration) * ramp_steps)
           step == Min((g.current_time * ramp_steps) \div g.duration, ramp_steps - 1)
           \* start_delay - (start_delay - end_delay) * ((step + 1) / ramp_steps)
           current_delay == start_delay * 1000
                            - ((start_delay - end_delay) * 1000 * (step + 1)) \div ramp_steps
       IN (current_delay * (70 + (60 * r) \div 100)) \div 100

\* The pattern configurations a generator is created with: none given (the
\* defaults apply), or a ramp from 2.0 s to 1.0 s in 4 steps.
PatternConfigs ==
  { <<>>, [start_delay |-> 20, end_delay |-> 10, ramp_steps |-> 4] }

Generators ==
  { [pattern |-> p, duration |-> d, current_time |-> t, pattern_config |-> c] :
      p \in {"steady", "gradual_ramp"}, d \in 1..MaxGenDuration,
      t \in 0..MaxGenDuration, c \in PatternConfigs }

InitGenerator ==
  /\ now = 0
  /\ target = {}
  /\ test_task = [test_id |-> "t1"]
  /\ dsl_data = [user_journey |-> <<>>, steps |-> <<>>, retry_attempts |-> 0]
  /\ main = NoMain
  /\ users = <<>>
  /\ active_users = <<>>
  /\ workload_generator = <<>>
  /\ coordinator = NoCoordinator
  /\ test_queue = NoQueue
  /\ \E g \in Generators :
       /\ g.current_time <= g.duration
       /\ call = [fn |-> "get_next_delay", generator |-> g, returned |-> FALSE,
                  delay |-> 0]

\* One call of get_next_delay on the generator.
CallGenerator ==
  /\ call.fn = "get_next_delay"
  /\ ~call.returned
  /\ \E r \in Draws :
       call' = [call EXCEPT !.returned = TRUE, !.delay = get_next_delay(call.generator, r)]
  /\ UNCHANGED <<now, test_queue, target, test_task, dsl_data, main, users, active_users,
                 workload_generator, coordinator>>

NextGenerator == CallGenerator

SpecGenerator == InitGenerator /\ [][NextGenerator]_vars

\* ------------------------------------------- pacing on the shared generator
\* The generator object of the test as get_next_delay reads it: created from
\* the plan (main.py 103-106), current_time as last written by update_time.
SharedGenerator(generators, g) ==
  [pattern |-> dsl_data.workload_pattern, duration |-> dsl_data.test_duration,
   current_time |-> generators[g].current_time,
   pattern_config |-> dsl_data.pattern_config]

\* The delay call of a pacing iteration: who called, the elapsed time the
\* caller had just passed to update_time, the current_time the generator held
\* before that and the one get_next_delay read, and the delay returned.
DelayCall(u, previous, generators, r) ==
  [fn |-> "get_next_delay", user_id |-> users[u].user_id, elapsed_time |-> now,
   previous |-> previous,
   current_time |-> generators[users[u].generator].current_time,
   delay |-> get_next_delay(SharedGenerator(generators, users[u].generator), r)]

\* A pacing iteration that is suspended between update_time and
\* get_next_delay; the task keeps its elapsed time in `slept` meanwhile.
PaceWithDelay_suspended(u) ==
  \/ /\ users[u].pc = "pacing"
     /\ workload_generator' = update_time(workload_generator, users[u].generator, now)
     /\ users' = [users EXCEPT ![u].pc = "updated", ![u].slept = now]
     /\ UNCHANGED <<now, test_queue, target, test_task, dsl_data, main, active_users,
                    coordinator, call>>
  \/ /\ users[u].pc = "updated"
     /\ IF users[u].slept >= dsl_data.test_duration
        THEN /\ users' = [users EXCEPT ![u].pc = "journey", ![u].slept = 0]
             /\ UNCHANGED call
        ELSE /\ users' = [users EXCEPT ![u].pc = "pacing", ![u].slept = 0]
             /\ \E r \in Draws :
                  call' = [DelayCall(u, users[u].slept, workload_generator, r)
                             EXCEPT !.elapsed_time = users[u].slept]
     /\ UNCHANGED <<now, test_queue, target, test_task, dsl_data, main, active_users,
                    workload_generator, coordinator>>

\* One iteration of a task's pacing loop with the delay it asks for
\* (simulate_user_journey 303-312, simulate_user_session 247-257): everything
\* from reading the clock to the sleep runs without suspension.
PaceWithDelay(u) ==
  /\ users[u].pc = "pacing"
  /\ LET g == users[u].generator
         previous == workload_generator[g].current_time
         updated == update_time(workload_generator, g, now)
     IN IF users[u].kind = "user"
        THEN /\ workload_generator' = updated
             /\ IF now >= dsl_data.test_duration
                THEN /\ users' = [users EXCEPT ![u].pc = "journey"]
                     /\ UNCHANGED call
                ELSE /\ \E r \in Draws : call' = DelayCall(u, previous, updated, r)
                     /\ UNCHANGED users
        ELSE IF now - users[u].session_start >= users[u].session_duration
             THEN /\ users' = [users EXCEPT ![u].pc = "journey"]
                  /\ UNCHANGED <<workload_generator, call>>
             ELSE /\ workload_generator' = updated
                  /\ \E r \in Draws : call' = DelayCall(u, previous, updated, r)
                  /\ UNCHANGED users
  /\ UNCHANGED <<now, test_queue, target, test_task, dsl_data, main, active_users, coordinator>>

\* A test of either user model, pattern steady or gradual_ramp, one flat GET
\* step against a target that answers 200.
InitPacing ==
  /\ InitCommon
  /\ target = {Answer(200)}
  /\ test_task = [test_id |-> "t1", dsl_script |-> "script", target_url |-> "http://target"]
  /\ \E m \in {"closed", "open"}, n \in 1..MaxUsers, d \in 1..MaxDuration + 1,
        mean \in SessionMeans, p \in {"steady", "gradual_ramp"} :
       /\ m = "open" => n = 1
       /\ m = "closed" => mean = 0
       /\ dsl_data = [user_journey |-> <<>>, steps |-> <<PlainGet>>,
                      retry_attempts |-> 0, user_model |-> m, num_users |-> n,
                      test_duration |-> d,
                      arrival_rate |-> IF m = "open" THEN 10 ELSE 0,
                      session_duration |-> mean,
                      workload_pattern |-> p, pattern_config |-> <<>>]

NextPacing ==
  \/ StartTest
  \/ Tick
  \/ ArrivalTick
  \/ Finish
  \/ \E u \in DOMAIN users : PaceWithDelay(u) \/ EnterJourney(u) \/ Attempt(u) \/ Runner(u)

SpecPacing == InitPacing /\ [][NextPacing]_vars

\* ------------------------------------------------------------------ auth setup
AuthTypes == {"none", "basic", "bearer", "session"}

\* auth_credentials as setup_auth reads it: which of its keys hold a value.
Credentials == [username : BOOLEAN, password : BOOLEAN, token : BOOLEAN]

\* setup_auth (journey_executor.py 313-356): the value handed to the executor
\* as `auth`. The session type posts a login request and returns None.
setup_auth(auth_type, auth_credentials) ==
  IF auth_type = "none"
     \/ ~(auth_credentials.username \/ auth_credentials.password \/ auth_credentials.token)
  THEN "None"
  ELSE IF auth_type = "basic"
  THEN IF auth_credentials.username /\ auth_credentials.password THEN "BasicAuth" ELSE "None"
  ELSE IF auth_type = "bearer"
  THEN IF auth_credentials.token THEN "Authorization: Bearer" ELSE "None"
  ELSE "None"

\* request_params of an attempt (journey_executor.py 90-95).
request_params(auth) ==
  [headers |-> IF auth = "Authorization: Bearer" THEN auth ELSE "None",
   auth |-> IF auth = "BasicAuth" THEN auth ELSE "None"]

\* A script of one journey with one step, with or without an `auth_type:`
\* line carrying the type of the task descriptor.
AuthScripts ==
  { <<Line("journey", "a", NotANumber), StepLine("GET", "/x", "absent", TRUE)>>,
    <<Line("other", "auth_type", NotANumber), Line("journey", "a", NotANumber),
      StepLine("GET", "/x", "absent", TRUE)>> }

InitAuth ==
  /\ now = 0
  /\ target = {}
  /\ \E t \in AuthTypes, c \in Credentials, dsl_script \in AuthScripts :
       test_task = [test_id |-> "t1", dsl_script |-> dsl_script,
                    target_url |-> "http://target", auth_type |-> t,
                    auth_credentials |-> c]
  /\ dsl_data = [user_journey |-> <<>>, steps |-> <<>>, retry_attempts |-> 0]
  /\ main = NoMain
  /\ users = <<>>
  /\ active_users = <<>>
  /\ workload_generator = <<>>
  /\ coordinator = NoCoordinator
  /\ test_queue = NoQueue
  /\ call = [fn |-> "setup_auth", pc |-> "task", auth_type |-> "None",
             auth |-> "None", sent |-> 0, request |-> request_params("None")]

\* run_performance_test parses the script and reads the auth type from the
\* plan (main.py 74-88).
ReadAuth ==
  /\ call.fn = "setup_auth"
  /\ call.pc = "task"
  /\ dsl_data' = parse_dsl(test_task.dsl_script)
  /\ call' = [call EXCEPT !.pc = "configured",
                          !.auth_type = Get(dsl_data', "auth_type", "none")]
  /\ UNCHANGED <<now, test_queue, target, test_task, main, users, active_users,
                 workload_generator, coordinator>>

\* execute_user_journey resolves the credential once (journey_executor.py 200).
SetupAuth ==
  /\ call.fn = "setup_auth"
  /\ call.pc = "configured"
  /\ call' = [call EXCEPT !.pc = "ready",
                          !.auth = setup_auth(call.auth_type, test_task.auth_credentials)]
  /\ UNCHANGED <<now, test_queue, target, test_task, dsl_data, main, users, active_users,
                 workload_generator, coordinator>>

\* An attempt of the journey's step is issued with its request parameters
\* (journey_executor.py 86-101).
AuthAttempt ==
  /\ call.fn = "setup_auth"
  /\ call.pc = "ready"
  /\ call.sent <= MaxRetry
  /\ call' = [call EXCEPT !.sent = @ + 1, !.request = request_params(call.auth)]
  /\ UNCHANGED <<now, test_queue, target, test_task, dsl_data, main, users, active_users,
                 workload_generator, coordinator>>

NextAuth == ReadAuth \/ SetupAuth \/ AuthAttempt

SpecAuth == InitAuth /\ [][NextAuth]_vars

\* ------------------------------------------------------- the queue consumer
\* Message bodies: a task that runs, a task whose script parse_dsl raises on,
\* a task without target_url, and a body json.loads raises on.
MessageBodies == {"task", "unparsable", "no_target", "not_json"}

\* test_data = json.loads(message.body.decode()) for the i-th message.
test_data(i, body) ==
  [test_id |-> ToString(i),
   dsl_script |-> IF body = "unparsable" THEN "unparsable" ELSE "script",
   target_url |-> IF body = "no_target" THEN "missing" ELSE "http://target"]

\* process_message has returned or raised for the message in process.
Processed == main.pc \in {"done", "failed", "escaped", "bad_body"}

InitConsumer ==
  /\ now = 0
  /\ target = {Answer(200)}
  /\ test_task = test_data(0, "task")
  /\ dsl_data = [user_journey |-> <<[steps |-> <<PlainGet>>, repeat |-> 1]>>,
                 steps |-> <<PlainGet>>, retry_attempts |-> 0, user_model |-> "closed",
                 num_users |-> 1, test_duration |-> 1, arrival_rate |-> 0,
                 session_duration |-> 0]
  /\ main = NoMain
  /\ users = <<>>
  /\ active_users = <<>>
  /\ workload_generator = <<>>
  /\ coordinator = NoCoordinator
  /\ call = NoCall
  /\ \E n \in 1..MaxMessages : \E bodies \in [1..n -> MessageBodies] :
       test_queue = [messages |-> bodies, next |-> 1, in_process |-> 0,
                     deliveries |-> [i \in 1..n |-> 0], acks |-> [i \in 1..n |-> 0],
                     logged |-> 0]

\* The queue hands the next message to process_message (prefetch_count=1:
\* only when none is in process); the body is decoded (main.py 58-63).
Deliver ==
  /\ test_queue.in_process = 0
  /\ test_queue.next <= Len(test_queue.messages)
  /\ LET i == test_queue.next
         body == test_queue.messages[i]
     IN /\ test_queue' = [test_queue EXCEPT !.in_process = i, !.next = i + 1,
                                            !.deliveries[i] = @ + 1]
        /\ IF body = "not_json"
           THEN /\ main' = [pc |-> "bad_body", test_id |-> Unbound]
                /\ UNCHANGED test_task
           ELSE /\ main' = [pc |-> "start", test_id |-> Unbound]
                /\ test_task' = test_data(i, body)
  /\ now' = 0
  /\ users' = <<>>
  /\ active_users' = <<>>
  /\ workload_generator' = <<>>
  /\ UNCHANGED <<target, dsl_data, coordinator, call>>

\* A consumer that puts the message back on the queue when processing raised.
Acknowledge_requeue_on_error ==
  /\ test_queue.in_process # 0
  /\ Processed
  /\ test_queue' =
       IF main.pc \in {"escaped", "bad_body"}
       THEN [test_queue EXCEPT !.in_process = 0, !.next = test_queue.in_process]
       ELSE [test_queue EXCEPT !.in_process = 0, !.acks[test_queue.in_process] = @ + 1]
  /\ main' = NoMain
  /\ UNCHANGED <<now, target, test_task, dsl_data, users, active_users,
                 workload_generator, coordinator, call>>

\* process_message ends (main.py 64-66): an exception of the processing is
\* logged, and leaving `async with message.process()` acknowledges the message.
Acknowledge ==
  /\ test_queue.in_process # 0
  /\ Processed
  /\ test_queue' = [test_queue EXCEPT
                      !.in_process = 0,
                      !.acks[test_queue.in_process] = @ + 1,
                      !.logged = IF main.pc \in {"escaped", "bad_body"} THEN @ + 1 ELSE @]
  /\ main' = NoMain
  /\ UNCHANGED <<now, target, test_task, dsl_data, users, active_users,
                 workload_generator, coordinator, call>>

NextConsumer ==
  \/ Deliver
  \/ Acknowledge
  \/ StartTest
  \/ Tick
  \/ Finish
  \/ \E u \in DOMAIN users : Pace(u) \/ EnterJourney(u) \/ Attempt(u) \/ Runner(u)

SpecConsumer == InitConsumer /\ [][NextConsumer]_vars

\* --------------------------------------------- the degradation policy alone
NoUsers == <<>>

InitPolicy ==
  /\ now = 0
  /\ target = {}
  /\ test_task = [test_id |-> "t1"]
  /\ dsl_data = [user_journey |-> <<>>, steps |-> <<>>, retry_attempts |-> 0]
  /\ main = NoMain
  /\ users = NoUsers
  /\ active_users = <<>>
  /\ workload_generator = <<>>
  /\ coordinator = NoCoordinator
  /\ test_queue = NoQueue
  /\ \E c \in ErrorCategory, s \in ErrorSeverity, a \in 0..MaxRetry + 1, m \in 0..MaxRetry :
       call = [fn |-> "determine_degradation_strategy", category |-> c, severity |-> s,
               attempt |-> a, max_attempts |-> m, result |-> "None"]

\* The policy is applied to the arguments drawn.
CallPolicy ==
  /\ call.fn = "determine_degradation_strategy"
  /\ call.result = "None"
  /\ call' = [call EXCEPT !.result =
                determine_degradation_strategy(call.category, call.severity,
                                               call.attempt, call.max_attempts)]
  /\ UNCHANGED <<now, test_queue, target, test_task, dsl_data, main, users, active_users,
                 workload_generator, coordinator>>

NextPolicy == CallPolicy

SpecPolicy == InitPolicy /\ [][NextPolicy]_vars

\* ------------------------------------------------------ the classifier alone
\* Status codes handed to categorize_error: no status, the targets' answers
\* and the edges of the ranges it tests.
ClassifierStatuses ==
  StatusCodes \cup {NoStatus, 100, 199, 300, 399, 400, 499, 501, 599, 600}

InitClassifier ==
  /\ now = 0
  /\ target = {}
  /\ test_task = [test_id |-> "t1"]
  /\ dsl_data = [user_journey |-> <<>>, steps |-> <<>>, retry_attempts |-> 0]
  /\ main = NoMain
  /\ users = NoUsers
  /\ active_users = <<>>
  /\ workload_generator = <<>>
  /\ coordinator = NoCoordinator
  /\ test_queue = NoQueue
  /\ \E x \in ExceptionKinds \cup {NoException}, c \in ClassifierStatuses :
       call = [fn |-> "categorize_error", exception |-> x, status_code |-> c,
               returned |-> FALSE, result |-> PyNone]

\* The classifier is applied to the arguments drawn.
CallClassifier ==
  /\ call.fn = "categorize_error"
  /\ ~call.returned
  /\ call' = [call EXCEPT !.returned = TRUE,
                          !.result = categorize_error(call.exception, call.status_code)]
  /\ UNCHANGED <<now, test_queue, target, test_task, dsl_data, main, users, active_users,
                 workload_generator, coordinator>>

NextClassifier == CallClassifier

SpecClassifier == InitClassifier /\ [][NextClassifier]_vars

\* ------------------------------------------------------------ the coordinator
\* In this part `coordinator` is the coordinator's own module state: the
\* TestStatus objects it has created (a dictionary holds a reference, here
\* the object's index), the three dictionaries, the module-level test_queue
\* (None until lifespan declared it), whether lifespan started the
\* check_timeout task, and the handlers suspended in an await.  `call` is
\* the last answer create_test or generate_dsl gave and `now` is
\* datetime.now() in seconds.  A published message leaves the coordinator.

\* Ids a client may put in TestRequest.test_id.
TestIds == {"t1"}

\* Ids run_causal_experiment draws with uuid4: never one that was used.
ExperimentIds == {"e1"}

AllIds == TestIds \cup ExperimentIds

\* The instants the clock is observed at, in seconds.
Instants == {0, 30, 700}

LastInstant == 700

timeout_buffer == 600

\* test_duration is None; like 0 it is falsy, and the code tests
\* test_duration for truth before every use.
NoDuration == 0

\* test_duration values a script sets (duration: 0 is stored as it is).
TestDurations == {0, 60}

\* results == {}
NoResults == [posted |-> FALSE, successful_requests |-> 0, failed_requests |-> 0]

\* Progress values a progress post carries.
ProgressValues == {50, 150}

\* An empty dict.
EmptyDict == [k \in {} |-> 0]

\* dict.pop(key) / del d[key], for the dictionary that is left
Pop(d, key) == [k \in DOMAIN d \ {key} |-> d[k]]

\* TestStatus(test_id=..., status=..., progress=0.0, start_time=datetime.now())
TestStatus(test_id, status, test_duration) ==
  [test_id |-> test_id, status |-> status, progress |-> 0, start_time |-> now,
   test_duration |-> test_duration, results |-> NoResults, error |-> "None"]

\* utils.calculate_test_progress, in whole percent
calculate_test_progress(test_status) ==
  IF test_status.test_duration = NoDuration
  THEN 0
  ELSE Min(((now - test_status.start_time) * 100) \div test_status.test_duration, 100)

\* utils.format_test_results: the counters of the posted result
format_test_results(test_result) ==
  [posted |-> TRUE, successful_requests |-> test_result.successful_requests,
   failed_requests |-> test_result.failed_requests]

\* The results a worker posts.
TestResults ==
  { [successful_requests |-> 1, failed_requests |-> 0],
    [successful_requests |-> 0, failed_requests |-> 1] }

\* The objects a dictionary or a suspended handler refers to.
Referenced(c) ==
  UNION { { d[id] : id \in DOMAIN d } :
          d \in {c.active_tests, c.completed_tests, c.failed_tests} }
    \cup { h.test_status : h \in c.handlers }

\* An object nothing refers to any more is freed: only the id it used up is
\* kept.
Collect(c) ==
  [c EXCEPT !.objects =
     [i \in DOMAIN @ |->
        IF i \in Referenced(c) THEN @[i]
        ELSE [test_id |-> @[i].test_id, status |-> "freed", progress |-> 0,
              start_time |-> 0, test_duration |-> NoDuration, results |-> NoResults,
              error |-> "None"]]]

\* An answer of an endpoint; test_status is the object the call created (0
\* when it created none).
Response(fn, test_id, status_code, test_status) ==
  [call EXCEPT !.fn = fn, !.test_id = test_id,
               !.status_code = status_code, !.test_status = test_status]

Suspended(fn, test_id, test_status) ==
  [fn |-> fn, test_id |-> test_id, test_status |-> test_status]

\* The handlers that may be suspended in a publish.
Handlers ==
  { Suspended(fn, test_id, test_status) :
      fn \in {"create_test", "run_causal_experiment"}, test_id \in AllIds,
      test_status \in 1..MaxCalls }

\* POST /tests up to its await of the channel: the ping's answer and the
\* script are inputs.  The record is put in active_tests before test_queue
\* is looked at, whatever the dictionaries hold for the id.
create_test(test_id, available, steps, test_duration) ==
  /\ Len(coordinator.objects) < MaxCalls
  /\ now < LastInstant
  /\ IF ~available \/ ~steps
     THEN /\ UNCHANGED coordinator
          /\ call' = Response("create_test", test_id, 400, 0)
     ELSE LET test_status == Len(coordinator.objects) + 1
              registered ==
                [coordinator EXCEPT
                   !.objects = Append(@, TestStatus(test_id, "pending", test_duration)),
                   !.active_tests = Put(@, test_id, test_status)]
          IN  IF coordinator.test_queue = "declared"
              THEN /\ coordinator' =
                        Collect([registered EXCEPT
                           !.handlers = @ \cup {Suspended("create_test", test_id, test_status)}])
                   /\ UNCHANGED call
              ELSE /\ coordinator' = Collect(registered)
                   /\ call' = Response("create_test", test_id, 500, test_status)
  /\ UNCHANGED <<now, test_queue, target, test_task, dsl_data, main, users, active_users,
                 workload_generator>>

\* POST /causal-experiment up to its await of the connection, for one
\* variation: the TestStatus is created without a test_duration.
run_causal_experiment(test_id, available, steps) ==
  /\ Len(coordinator.objects) < MaxCalls
  /\ now < LastInstant
  /\ \A i \in DOMAIN coordinator.objects : coordinator.objects[i].test_id # test_id
  /\ IF ~available \/ ~steps
     THEN /\ UNCHANGED coordinator
          /\ UNCHANGED call
     ELSE LET test_status == Len(coordinator.objects) + 1
          IN  /\ coordinator' =
                   Collect([coordinator EXCEPT
                      !.objects = Append(@, TestStatus(test_id, "running", NoDuration)),
                      !.active_tests = Put(@, test_id, test_status),
                      !.handlers = @ \cup {Suspended("run_causal_experiment", test_id,
                                                      test_status)}])
              /\ UNCHANGED call
  /\ UNCHANGED <<now, test_queue, target, test_task, dsl_data, main, users, active_users,
                 workload_generator>>

\* The publish a suspended handler waits for returns or raises.  create_test
\* sets its object running and stores it again, or lets the exception out;
\* run_causal_experiment files its object under failed_tests on an exception.
publish(h, ok) ==
  /\ h \in coordinator.handlers
  /\ IF h.fn = "create_test"
     THEN IF ok
          THEN /\ coordinator' =
                    Collect([coordinator EXCEPT
                       !.objects[h.test_status].status = "running",
                       !.active_tests = Put(@, h.test_id, h.test_status),
                       !.handlers = @ \ {h}])
               /\ call' = Response("create_test", h.test_id, 200, h.test_status)
          ELSE /\ coordinator' = Collect([coordinator EXCEPT !.handlers = @ \ {h}])
               /\ call' = Response("create_test", h.test_id, 500, h.test_status)
     ELSE IF ok
          THEN /\ coordinator' = Collect([coordinator EXCEPT !.handlers = @ \ {h}])
               /\ UNCHANGED call
          ELSE /\ coordinator' =
                    Collect([coordinator EXCEPT
                       !.objects[h.test_status].status = "failed",
                       !.objects[h.test_status].results =
                          [posted |-> TRUE, successful_requests |-> 0,
                           failed_requests |-> 0],
                       !.failed_tests = Put(@, h.test_id, h.test_status),
                       !.active_tests = Pop(@, h.test_id),
                       !.handlers = @ \ {h}])
               /\ UNCHANGED call
  /\ UNCHANGED <<now, test_queue, target, test_task, dsl_data, main, users, active_users,
                 workload_generator>>

\* POST /generate-dsl with auto_run: test_request is a dict, so
\* test_request.target_url raises AttributeError while the arguments of
\* TestStatus are evaluated; nothing is registered and the answer says that
\* the auto-run failed.
generate_dsl ==
  /\ call' = Response("generate_dsl", "auto_test", 200, 0)
  /\ UNCHANGED coordinator
  /\ UNCHANGED <<now, test_queue, target, test_task, dsl_data, main, users, active_users,
                 workload_generator>>

\* POST /tests/{test_id}/results
receive_test_results(test_id, test_result) ==
  /\ IF test_id \in DOMAIN coordinator.active_tests
     THEN LET test_status == coordinator.active_tests[test_id]
              failed == test_result.failed_requests > test_result.successful_requests
              done == [coordinator.objects[test_status] EXCEPT
                         !.status = IF failed THEN "failed" ELSE "completed",
                         !.results = format_test_results(test_result),
                         !.error = IF failed THEN "Test failed: too many failed requests"
                                   ELSE @,
                         !.progress = 100]
          IN  coordinator' =
                Collect([coordinator EXCEPT
                   !.objects[test_status] = done,
                   !.failed_tests = IF failed THEN Put(@, test_id, test_status) ELSE @,
                   !.completed_tests = IF failed THEN @ ELSE Put(@, test_id, test_status),
                   !.active_tests = Pop(@, test_id)])
     ELSE UNCHANGED coordinator
  /\ UNCHANGED <<now, test_queue, target, test_task, dsl_data, main, users, active_users,
                 workload_generator, call>>

\* POST /tests/{test_id}/progress
receive_progress_update(test_id, posted) ==
  /\ IF test_id \in DOMAIN coordinator.active_tests
     THEN LET test_status == coordinator.active_tests[test_id]
          IN  IF posted > coordinator.objects[test_status].progress
              THEN coordinator' =
                     Collect([coordinator EXCEPT !.objects[test_status].progress = Min(posted, 100)])
              ELSE UNCHANGED coordinator
     ELSE UNCHANGED coordinator
  /\ UNCHANGED <<now, test_queue, target, test_task, dsl_data, main, users, active_users,
                 workload_generator, call>>

\* POST /tests/{test_id}/error
receive_test_error(test_id) ==
  /\ IF test_id \in DOMAIN coordinator.active_tests
     THEN LET test_status == coordinator.active_tests[test_id]
          IN  coordinator' =
                Collect([coordinator EXCEPT
                   !.objects[test_status] =
                      [@ EXCEPT !.status = "failed",
                                !.error = "worker error", !.progress = 100],
                   !.failed_tests = Put(@, test_id, test_status),
                   !.active_tests = Pop(@, test_id)])
     ELSE UNCHANGED coordinator
  /\ UNCHANGED <<now, test_queue, target, test_task, dsl_data, main, users, active_users,
                 workload_generator, call>>

\* GET /tests/{test_id}: the progress of an active test is overwritten by
\* the one computed from the clock.
get_test_status(test_id) ==
  /\ IF test_id \in DOMAIN coordinator.active_tests
     THEN LET test_status == coordinator.active_tests[test_id]
          IN  coordinator' =
                Collect([coordinator EXCEPT
                   !.objects[test_status].progress =
                      calculate_test_progress(coordinator.objects[test_status])])
     ELSE UNCHANGED coordinator
  /\ UNCHANGED <<now, test_queue, target, test_task, dsl_data, main, users, active_users,
                 workload_generator, call>>

\* The objects active_tests refers to.
ActiveObjects == { coordinator.active_tests[id] : id \in DOMAIN coordinator.active_tests }

\* GET /tests
list_all_tests ==
  /\ coordinator' =
       Collect([coordinator EXCEPT
          !.objects = [i \in DOMAIN @ |->
                         IF i \in ActiveObjects
                         THEN [@[i] EXCEPT !.progress =
                                 calculate_test_progress(coordinator.objects[i])]
                         ELSE @[i]]])
  /\ UNCHANGED <<now, test_queue, target, test_task, dsl_data, main, users, active_users,
                 workload_generator, call>>

\* DELETE /tests/{test_id}
delete_test(test_id) ==
  /\ coordinator' = Collect([coordinator EXCEPT !.active_tests = Pop(@, test_id)])
  /\ UNCHANGED <<now, test_queue, target, test_task, dsl_data, main, users, active_users,
                 workload_generator, call>>

\* check_test_timeouts looks at a test only if its test_duration is truthy.
Swept(test_status) == test_status.test_duration # NoDuration

TimedOut(test_status) ==
  /\ Swept(test_status)
  /\ now - test_status.start_time > test_status.test_duration + timeout_buffer

\* One pass of check_test_timeouts, run by the check_timeout task that
\* lifespan creates once RabbitMQ is connected.
check_test_timeouts ==
  /\ coordinator.sweeper
  /\ LET expired == { id \in DOMAIN coordinator.active_tests :
                        TimedOut(coordinator.objects[coordinator.active_tests[id]]) }
     IN  coordinator' =
           Collect([coordinator EXCEPT
              !.objects =
                 [i \in DOMAIN @ |->
                    IF i \in ActiveObjects /\ TimedOut(@[i])
                    THEN [@[i] EXCEPT !.status = "failed",
                                      !.error = "Test timeout", !.progress = 100]
                    ELSE IF i \in ActiveObjects /\ Swept(@[i])
                    THEN [@[i] EXCEPT !.progress =
                            calculate_test_progress(coordinator.objects[i])]
                    ELSE @[i]],
              !.failed_tests =
                 [id \in DOMAIN @ \cup expired |->
                    IF id \in expired THEN coordinator.active_tests[id] ELSE @[id]],
              !.active_tests = [id \in DOMAIN @ \ expired |-> @[id]]])
  /\ UNCHANGED <<now, test_queue, target, test_task, dsl_data, main, users, active_users,
                 workload_generator, call>>

\* Time passes.
Advance ==
  /\ \E t \in Instants : t > now /\ now' = t
  /\ UNCHANGED <<test_queue, target, test_task, dsl_data, main, users, active_users,
                 workload_generator, coordinator, call>>

\* lifespan: RabbitMQ was reached (test_queue declared, check_timeout
\* started) or it was not (neither).
InitCoordinator ==
  /\ now = 0
  /\ target = {}
  /\ test_task = [test_id |-> "t1"]
  /\ dsl_data = [user_journey |-> <<>>, steps |-> <<>>, retry_attempts |-> 0]
  /\ main = NoMain
  /\ users = NoUsers
  /\ active_users = <<>>
  /\ workload_generator = <<>>
  /\ \E connected \in BOOLEAN :
       coordinator = [objects |-> <<>>, active_tests |-> EmptyDict,
                      completed_tests |-> EmptyDict, failed_tests |-> EmptyDict,
                      test_queue |-> IF connected THEN "declared" ELSE "None",
                      sweeper |-> connected, handlers |-> {}]
  /\ test_queue = NoQueue
  /\ call = [fn |-> "None", test_id |-> "None", status_code |-> 0,
             test_status |-> 0]

NextCoordinator ==
  \/ \E test_id \in TestIds, available \in BOOLEAN, steps \in BOOLEAN,
        test_duration \in TestDurations :
       create_test(test_id, available, steps, test_duration)
  \/ \E test_id \in ExperimentIds, available \in BOOLEAN, steps \in BOOLEAN :
       run_causal_experiment(test_id, available, steps)
  \/ \E h \in Handlers, ok \in BOOLEAN : publish(h, ok)
  \/ generate_dsl
  \/ \E test_id \in AllIds, test_result \in TestResults :
       receive_test_results(test_id, test_result)
  \/ \E test_id \in AllIds, posted \in ProgressValues :
       receive_progress_update(test_id, posted)
  \/ \E test_id \in AllIds : receive_test_error(test_id)
  \/ \E test_id \in AllIds : get_test_status(test_id)
  \/ list_all_tests
  \/ \E test_id \in AllIds : delete_test(test_id)
  \/ check_test_timeouts
  \/ Advance

SpecCoordinator == InitCoordinator /\ [][NextCoordinator]_vars

\* asyncio runs the check_timeout task every 30 seconds for as long as the
\* process lives, and time passes.
SpecCoordinatorLive ==
  SpecCoordinator /\ WF_vars(check_test_timeouts) /\ WF_vars(Advance)

\* ------------------------------------------------------------------ claims
Last(s) == s[Len(s)]

Returning(u) == users[u].pc = "attempt" /\ users'[u].pc = "returned"

\* C1: every call of the step executor that ends in a terminal outcome (a
\* request was answered: success, HTTP failure or exhausted retries) adds
\* exactly 1 to the session's request counter, and an attempt that is retried
\* adds nothing.
C1_OneRequestPerStep ==
  [][\A u \in DOMAIN users :
       /\ (Returning(u) /\ users'[u].sent > 0)
            => users'[u].requests = users[u].requests + 1
       /\ (users[u].pc = "attempt" /\ users'[u].pc = "attempt")
            => users'[u].requests = users[u].requests]_vars

C3_AuthTerminates ==
  \A u \in DOMAIN users :
    target = {Answer(401)} =>
      /\ (users[u].pc = "returned" /\ users[u].sent > 0)
           => users[u].strategy = "terminate_journey"
      /\ users[u].pos \in {NoPos, NextPos(dsl_data.user_journey, NoPos)}

\* C4: when the call returns fallback_endpoint for a step that declares a
\* fallback path, exactly one GET against the fallback URL was issued first.
C4_FallbackTried ==
  \A u \in DOMAIN users :
    ( /\ users[u].pc = "returned"
      /\ users[u].strategy = "fallback_endpoint"
      /\ users[u].endpoint.fallback_endpoint # NoFallback )
    => users[u].fallback_sent = 1

\* The counters and lists of the tasks that ran to completion, in spawn order.
Completed == SelectSeq(users, LAMBDA t : t.pc = "done")

\* C5: in the open model the final result's request, success and failure
\* counts equal the sums, and its latency and error lists the concatenations,
\* over every session that was spawned and ran to completion, the sessions
\* that completed before the test duration elapsed included.
C5_AllSessionsAggregated ==
  (dsl_data.user_model = "open" /\ coordinator.results # <<>>) =>
    LET r == coordinator.results[1] IN
    /\ r.total_requests = SumSeq([i \in DOMAIN Completed |-> Completed[i].requests])
    /\ r.successful_requests = SumSeq([i \in DOMAIN Completed |-> Completed[i].successful])
    /\ r.failed_requests = SumSeq([i \in DOMAIN Completed |-> Completed[i].failed])
    /\ r.n_latencies = SumSeq([i \in DOMAIN Completed |-> Len(Completed[i].latencies)])
    /\ r.error_details = ConcatSeq([i \in DOMAIN Completed |-> Completed[i].errors])

C7_NoArrivals ==
  (dsl_data.user_model = "open" /\ dsl_data.arrival_rate = 0) =>
    /\ users = <<>>
    /\ active_users = <<>>
    /\ coordinator.errors = <<>>
    /\ coordinator.results # <<>> =>
         LET r == coordinator.results[1] IN
         /\ r.total_requests = 0
         /\ success_rate(r) = 0
         /\ failure_rate(r) = 0
         /\ r.avg_latency = 0

\* An open-model test with arrival_rate = 0 and a plan that has steps ran for
\* its whole duration and posted its result.
C7_Witness ==
  /\ dsl_data.user_model = "open"
  /\ dsl_data.arrival_rate = 0
  /\ dsl_data.steps # <<>>
  /\ now >= dsl_data.test_duration
  /\ main.pc = "done"
  /\ Len(coordinator.results) = 1
  /\ coordinator.results[1].total_requests = 0

\* C8: when an exception escapes the body of run_performance_test, a failure
\* of parse_dsl included, exactly one error report carrying the test id has
\* been posted and no TestResult.
C8_ErrorReportedOnce ==
  main.pc \in {"failed", "escaped"} =>
    /\ Len(coordinator.errors) = 1
    /\ coordinator.errors[1].test_id = test_task.test_id
    /\ coordinator.results = <<>>

\* C9: no two user/session tasks that are running at the same time use the
\* same WorkloadGenerator instance.
C9_OwnGenerator ==
  \A u, v \in DOMAIN users :
    (u # v /\ ~Finished(users[u]) /\ ~Finished(users[v]))
      => users[u].generator # users[v].generator

\* C11: categorize_error returns a (category, severity) pair for every input:
\* timeout -> (timeout, medium); connection-level exception -> (network, high);
\* other client exception -> (network, medium); status 401 or 403 ->
\* (auth_error, high); other 400..499 -> (http_error, medium); 500..599 ->
\* (server_error, high); no exception and no status -> (unknown, low); and
\* every status outside [200, 300) yields a pair.
C11_ClassifierTotal ==
  (call.fn = "categorize_error" /\ call.returned) =>
    LET x == call.exception
        c == call.status_code
        client == x \in {"TimeoutError", "ClientConnectorError", "ClientError"}
    IN /\ x = "TimeoutError" => call.result = <<"timeout", "medium">>
       /\ x = "ClientConnectorError" => call.result = <<"network", "high">>
       /\ x = "ClientError" => call.result = <<"network", "medium">>
       /\ (~client /\ c \in {401, 403}) => call.result = <<"auth_error", "high">>
       /\ (~client /\ c \notin {401, 403} /\ 400 <= c /\ c <= 499)
            => call.result = <<"http_error", "medium">>
       /\ (~client /\ 500 <= c /\ c <= 599) => call.result = <<"server_error", "high">>
       /\ (x = NoException /\ c = NoStatus) => call.result = <<"unknown", "low">>
       /\ (c # NoStatus /\ ~status_ok(c)) => call.result \in ErrorCategory \X ErrorSeverity

\* q is the position the three nested loops of the runner reach right after
\* p: the next step of the same repetition, the first step of the next
\* repetition, or the first step of the next journey that has any step to run.
LoopSuccessor(user_journey, p, q) ==
  /\ q \in AllPos(user_journey)
  /\ \/ q[1] = p[1] /\ q[2] = p[2] /\ q[3] = p[3] + 1
     \/ /\ q[1] = p[1] /\ q[2] = p[2] + 1 /\ q[3] = 1
        /\ p[3] = Len(user_journey[p[1]].steps)
     \/ /\ q[1] > p[1] /\ q[2] = 1 /\ q[3] = 1
        /\ p = NoPos \/ ( /\ p[2] = user_journey[p[1]].repeat
                          /\ p[3] = Len(user_journey[p[1]].steps) )
        /\ \A k \in p[1] + 1 .. q[1] - 1 :
             user_journey[k].repeat < 1 \/ user_journey[k].steps = <<>>

\* C12: within one user, step requests are issued strictly in journey order:
\* journeys in list order, each journey's step list repeated `repeat` times in
\* sequence, and the request of a step is issued only after the executor has
\* returned for the previous step.
C12_JourneyOrder ==
  [][\A u \in DOMAIN users :
       /\ users'[u].pos # users[u].pos =>
            /\ users[u].pc \in {"journey", "returned"}
            /\ users'[u].pc = "attempt"
            /\ users'[u].sent = 0
            /\ LoopSuccessor(dsl_data.user_journey, users[u].pos, users'[u].pos)
            /\ users'[u].endpoint = StepAt(dsl_data.user_journey, users'[u].pos)
       /\ users'[u].sent > users[u].sent =>
            /\ users[u].pc = "attempt"
            /\ users[u].flat \/ users[u].endpoint = StepAt(dsl_data.user_journey, users[u].pos)]_vars

\* The runner has gone through every repetition of the first journey and is
\* executing the first step of the second.
C12_Witness ==
  \E u \in DOMAIN users :
    /\ Len(dsl_data.user_journey) = 2
    /\ dsl_data.user_journey[1].repeat = MaxRepeat
    /\ Len(dsl_data.user_journey[1].steps) = 1
    /\ users[u].pos = <<2, 1, 1>>
    /\ users[u].pc = "attempt"
    /\ users[u].requests = MaxRepeat

\* C13: in the runner the step following a step (in the same repetition, a
\* later repetition or a later journey) is executed if and only if the
\* strategy returned for the earlier step is not terminate_journey:
\* terminate_journey ends the user's run at once, while skip_step,
\* continue_journey and fallback_endpoint go on to the next step.
C13_TerminateOnly ==
  [][\A u \in DOMAIN users :
       /\ (users[u].pc = "returned" /\ ~users[u].flat /\ users'[u] # users[u]) =>
            LET more == \E q \in AllPos(dsl_data.user_journey) :
                          LoopSuccessor(dsl_data.user_journey, users[u].pos, q)
            IN IF users[u].strategy # "terminate_journey" /\ more
               THEN /\ users'[u].pc = "attempt"
                    /\ LoopSuccessor(dsl_data.user_journey, users[u].pos, users'[u].pos)
               ELSE /\ users'[u].pc = "done"
                    /\ users'[u].pos = users[u].pos
                    /\ users'[u].sent = users[u].sent
       /\ users[u].pc = "done" => users'[u] = users[u]]_vars

\* A user was stopped by terminate_journey on its first step while further
\* steps were still to run.
C13_Witness ==
  \E u \in DOMAIN users :
    /\ users[u].pc = "done"
    /\ ~users[u].flat
    /\ users[u].strategy = "terminate_journey"
    /\ users[u].pos = <<1, 1, 1>>
    /\ Work(dsl_data.user_journey) = MaxWork
    /\ users[u].requests = 1

\* The user's run was ended by a terminate_journey decision.
Terminated(u) == users[u].pc = "done" /\ users[u].strategy = "terminate_journey"

\* C14: a terminate_journey decision in one user/session task does not stop
\* or alter any other user/session: every other one still executes all of its
\* steps, and the test ends with a TestResult that includes the counters of
\* all users, the terminated one included.
C14_OthersUnaffected ==
  (coordinator.results # <<>> /\ \E u \in DOMAIN users : Terminated(u)) =>
    LET r == coordinator.results[1] IN
    /\ \A v \in DOMAIN users :
         (users[v].pc = "done" /\ ~Terminated(v) /\ ~users[v].flat) =>
           ~\E q \in AllPos(dsl_data.user_journey) :
               LoopSuccessor(dsl_data.user_journey, users[v].pos, q)
    /\ \A v \in DOMAIN users : Finished(users[v])
    /\ r.total_requests = SumSeq([i \in DOMAIN users |-> users[i].requests])
    /\ r.successful_requests = SumSeq([i \in DOMAIN users |-> users[i].successful])
    /\ r.failed_requests = SumSeq([i \in DOMAIN users |-> users[i].failed])

\* C15: in the closed model exactly num_users user tasks are spawned, each
\* runs its journey list exactly once, and only after its pacing loop has
\* seen elapsed >= test duration; no step request is issued by a user before
\* that point.
C15_ClosedOncePerUser ==
  [][/\ main'.pc \in {"gather", "done"} => Len(users') = dsl_data.num_users
     /\ main'.pc \in {"start", "failed", "escaped"} => users' = <<>>
     /\ \A u \in DOMAIN users' :
          /\ users'[u].pc # "pacing" => now' >= dsl_data.test_duration
          /\ users'[u].pc = "pacing" =>
               users'[u].sent = 0 /\ users'[u].requests = 0
     /\ \A u \in DOMAIN users :
          /\ users'[u].pc = "pacing" => users[u].pc = "pacing"
          /\ users'[u].pc = "journey" => users[u].pc \in {"pacing", "journey"}
          /\ users[u].pc \in {"done", "raised"} => users'[u] = users[u]]_vars

\* One user of the largest population is issuing a request at the moment the
\* test duration is reached while another is still in its pacing loop.
C15_Witness ==
  /\ dsl_data.user_model = "closed"
  /\ dsl_data.num_users = MaxUsers
  /\ Len(users) = MaxUsers
  /\ now = dsl_data.test_duration
  /\ users[1].pc = "attempt"
  /\ users[MaxUsers].pc = "pacing"

\* C16: in the open model no session is spawned once elapsed >= test
\* duration, the sessions running at that moment are not cancelled, and the
\* results are not aggregated or returned until every still-active session
\* task has completed.
C16_DrainBeforeAggregate ==
  [][/\ Len(users') > Len(users) =>
          /\ now < dsl_data.test_duration
          /\ main.pc = "open_loop"
          /\ Len(users') = Len(users) + 1
     /\ main'.pc \in {"drain", "done"} =>
          /\ now' >= dsl_data.test_duration
          /\ Len(users') = Len(users)
     /\ \A u \in DOMAIN users :
          /\ users[u].pc \in {"done", "raised"} => users'[u] = users[u]
          /\ users'[u].pc \in {"done", "raised"} =>
               users[u].pc \in {"done", "raised", "journey", "returned"}
     /\ coordinator'.results # coordinator.results =>
          /\ main.pc = "drain"
          /\ \A u \in DOMAIN users : Finished(users[u])
          /\ coordinator.results = <<>>]_vars

\* The result was posted after a session that outlived the test duration had
\* run to its own completion.
C16_Witness ==
  /\ dsl_data.user_model = "open"
  /\ main.pc = "done"
  /\ Len(coordinator.results) = 1
  /\ \E u \in DOMAIN users :
       /\ users[u].session_start + users[u].session_duration > dsl_data.test_duration
       /\ users[u].pc = "done"
       /\ users[u].requests > 0
       /\ u \in Range(active_users)

\* C17: each task message taken from the queue is acknowledged exactly once,
\* after run_performance_test has finished for it; when processing raises,
\* the exception is logged and the message is still acknowledged and dropped:
\* no task is requeued or processed a second time.
C17_AckOnce ==
  [][/\ test_queue'.messages = test_queue.messages
     /\ test_queue'.next >= test_queue.next
     /\ \A i \in DOMAIN test_queue.messages :
          /\ test_queue'.deliveries[i] <= 1
          /\ test_queue'.acks[i] <= test_queue'.deliveries[i]
          /\ test_queue'.acks[i] # test_queue.acks[i] =>
               /\ test_queue.acks[i] = 0
               /\ test_queue'.acks[i] = 1
               /\ test_queue.in_process = i
               /\ Processed
               /\ main.pc \in {"escaped", "bad_body"}
                    => test_queue'.logged = test_queue.logged + 1
          /\ (test_queue.in_process = i /\ test_queue'.in_process # i)
               => test_queue'.acks[i] = 1
     /\ main'.pc = "start" => test_queue'.in_process # 0]_vars

\* Every message of a full queue was acknowledged once, the first after its
\* processing raised and the last after its test ran and posted a result.
C17_Witness ==
  /\ Len(test_queue.messages) = MaxMessages
  /\ test_queue.messages[1] = "unparsable"
  /\ test_queue.messages[MaxMessages] = "task"
  /\ test_queue.in_process = 0
  /\ \A i \in DOMAIN test_queue.messages :
       test_queue.acks[i] = 1 /\ test_queue.deliveries[i] = 1
  /\ test_queue.logged >= 1
  /\ coordinator.results # <<>>

\* C18: parse_dsl never raises, whatever the lines of the script, and the
\* plan it returns has num_users >= 0 and test duration > 0.
C18_ParserTotal ==
  (call.fn = "parse_dsl" /\ call.returned) =>
    /\ call.result.raised = "None"
    /\ call.result.num_users >= 0
    /\ call.result.test_duration > 0

\* The script has a line `key: ...` of a directive without a branch.
Written(key) ==
  \E i \in DOMAIN call.dsl_script :
    call.dsl_script[i].kind = "other" /\ call.dsl_script[i].word = key

\* The number written on the last `key: ...` line of the script.
WrittenNumber(key) ==
  LET at == { i \in DOMAIN call.dsl_script :
                call.dsl_script[i].kind = "other" /\ call.dsl_script[i].word = key }
      i == CHOOSE i \in at : \A j \in at : j <= i
  IN call.dsl_script[i].text.n

\* C19: each of the lines `user_model:`, `arrival_rate:`, `session_duration:`,
\* `timeout:` and `retry_attempts:` sets the field of the plan the worker runs
\* with: `user_model: open` selects the open model, `retry_attempts: n` and
\* `timeout: t` are the executor's attempt budget and request timeout; when
\* absent, timeout is 30 and retry attempts 3.
C19_DirectivesSet ==
  (call.fn = "parse_dsl" /\ call.returned /\ call.result.raised = "None") =>
    /\ Written("user_model") => call.config.user_model = "open"
    /\ Written("arrival_rate") => call.config.arrival_rate # "None"
    /\ Written("session_duration") => call.config.session_duration # "None"
    /\ call.config.timeout = IF Written("timeout") THEN WrittenNumber("timeout") ELSE 30
    /\ call.config.retry_attempts =
         IF Written("retry_attempts") THEN WrittenNumber("retry_attempts") ELSE 3

\* The index of the k-th `journey:` line of the script.
JourneyLine(dsl_script, k) ==
  CHOOSE i \in DOMAIN dsl_script :
    /\ dsl_script[i].kind = "journey"
    /\ Cardinality({ j \in 1..i : dsl_script[j].kind = "journey" }) = k

\* The index just past the lines of the journey opened at line i: its `end`
\* line, the next `journey:` line, or the end of the script.
JourneyClose(dsl_script, i) ==
  LET closers == { j \in i + 1 .. Len(dsl_script) :
                     dsl_script[j].kind \in {"end", "journey"} }
  IN IF closers = {} THEN Len(dsl_script) + 1
     ELSE CHOOSE j \in closers : \A c \in closers : j <= c

\* The lines written inside the journey opened at line i.
JourneyBody(dsl_script, i) == SubSeq(dsl_script, i + 1, JourneyClose(dsl_script, i) - 1)

\* The step a well-formed step line denotes.
WrittenStep(line) ==
  [method |-> upper(line.method), path |-> line.path,
   payload |-> IF line.payload = "valid" THEN "object" ELSE "None"]

\* C20: for a script of recognised directives, the journeys of the plan are
\* in the order of their `journey:` lines, each journey's step list is exactly
\* the step lines written between its `journey:` line and its `end`, in the
\* written order, and its repeat count is the value of its `repeat:` line (1
\* if none).
C20_JourneysAsWritten ==
  ( /\ call.fn = "parse_dsl" /\ call.returned /\ call.result.raised = "None"
    /\ \A i \in DOMAIN call.dsl_script :
         /\ call.dsl_script[i].kind \notin {"other", "blank", "comment"}
         /\ call.dsl_script[i].kind = "step" => call.dsl_script[i].matches
         /\ call.dsl_script[i].kind \in {"users", "duration", "repeat", "config"}
              => call.dsl_script[i].text.ok
    /\ call.dsl_script # <<>> ) =>
    LET dsl_script == call.dsl_script
        user_journey == call.result.user_journey
    IN /\ Len(user_journey) =
            Cardinality({ i \in DOMAIN dsl_script : dsl_script[i].kind = "journey" })
       /\ \A k \in DOMAIN user_journey :
            LET body == JourneyBody(dsl_script, JourneyLine(dsl_script, k))
                steps == SelectSeq(body, LAMBDA l : l.kind = "step")
                repeats == SelectSeq(body, LAMBDA l : l.kind = "repeat")
            IN /\ user_journey[k].name = dsl_script[JourneyLine(dsl_script, k)].word
               /\ user_journey[k].steps = [n \in DOMAIN steps |-> WrittenStep(steps[n])]
               /\ user_journey[k].repeat =
                    IF repeats = <<>> THEN 1 ELSE repeats[Len(repeats)].text.n

\* A script of two journeys was parsed: the first with one step and a repeat
\* count, closed by the `journey:` line of the second, which has another step.
C20_Witness ==
  /\ call.fn = "parse_dsl"
  /\ call.returned
  /\ Len(call.dsl_script) = MaxJourneyLines
  /\ call.result.raised = "None"
  /\ Len(call.result.user_journey) = 2
  /\ call.result.user_journey[1].name = "a"
  /\ call.result.user_journey[1].repeat = 2
  /\ Len(call.result.user_journey[1].steps) = 1
  /\ call.result.user_journey[2].name = "b"
  /\ Len(call.result.user_journey[2].steps) >= 1
  /\ call.result.user_journey[2].steps[1].method = "POST"

\* C21: parse_dsl of an empty or whitespace-only script returns, without
\* raising, the default plan: population 1, duration 60, pattern steady, an
\* empty flat step list and an empty journey list.
C21_BlankScriptDefault ==
  ( /\ call.fn = "parse_dsl" /\ call.returned
    /\ \A i \in DOMAIN call.dsl_script : call.dsl_script[i].kind = "blank" ) =>
    /\ call.result.raised = "None"
    /\ call.result.num_users = 1
    /\ call.result.test_duration = 60
    /\ call.result.workload_pattern = "steady"
    /\ call.result.steps = <<>>
    /\ call.result.user_journey = <<>>

\* A script of blank lines only, as long as scripts get, was parsed.
C21_Witness ==
  /\ call.fn = "parse_dsl"
  /\ call.returned
  /\ Len(call.dsl_script) = MaxLines
  /\ \A i \in DOMAIN call.dsl_script : call.dsl_script[i].kind = "blank"
  /\ call.result.num_users = 1

\* C22: when the task descriptor carries auth type bearer with a token, or
\* basic with username and password, every HTTP attempt issued for a step of
\* a named journey carries that credential: the Authorization: Bearer header,
\* or the basic-auth credential.
C22_CredentialCarried ==
  (call.fn = "setup_auth" /\ call.sent > 0) =>
    /\ (test_task.auth_type = "bearer" /\ test_task.auth_credentials.token)
         => call.request.headers = "Authorization: Bearer"
    /\ ( /\ test_task.auth_type = "basic"
         /\ test_task.auth_credentials.username
         /\ test_task.auth_credentials.password )
         => call.request.auth = "BasicAuth"

\* C23: when every attempt of a step times out, the executor issues exactly
\* retry_attempts + 1 attempts; after a timed-out attempt with index below
\* retry_attempts it sleeps 2^attempt seconds and records nothing, after the
\* last one it does not sleep, records exactly one ErrorRecord (timeout,
\* attempt number retry_attempts + 1), adds 1 to the failure counter and
\* returns what determine_degradation_strategy computes.
C23_TimeoutBackoff ==
  [][\A u \in DOMAIN users :
       ( /\ target = {Raise("TimeoutError")}
         /\ users[u].pc = "attempt"
         /\ users'[u] # users[u]
         /\ users[u].endpoint.method \in SupportedMethods ) =>
         /\ users'[u].sent = users[u].sent + 1
         /\ users'[u].sent = users[u].attempt + 1
         /\ IF users[u].attempt < dsl_data.retry_attempts
            THEN /\ users'[u].pc = "attempt"
                 /\ users'[u].attempt = users[u].attempt + 1
                 /\ users'[u].slept = users[u].slept + 2 ^ users[u].attempt
                 /\ users'[u].errors = users[u].errors
                 /\ users'[u].failed = users[u].failed
            ELSE /\ users'[u].pc = "returned"
                 /\ users'[u].sent = dsl_data.retry_attempts + 1
                 /\ users'[u].slept = users[u].slept
                 /\ users'[u].slept = 2 ^ dsl_data.retry_attempts - 1
                 /\ Len(users'[u].errors) = Len(users[u].errors) + 1
                 /\ Last(users'[u].errors).category = "timeout"
                 /\ Last(users'[u].errors).attempt = dsl_data.retry_attempts + 1
                 /\ users'[u].failed = users[u].failed + 1
                 /\ users'[u].strategy =
                      determine_degradation_strategy("timeout", "medium",
                        dsl_data.retry_attempts, dsl_data.retry_attempts)]_vars

\* A step has returned after MaxRetry + 1 timed-out attempts and two backoff
\* sleeps of 1 and 2 seconds.
C23_Witness ==
  /\ target = {Raise("TimeoutError")}
  /\ dsl_data.retry_attempts = MaxRetry
  /\ \E u \in DOMAIN users :
       /\ users[u].pc = "returned"
       /\ users[u].sent = MaxRetry + 1
       /\ users[u].slept = 2 ^ MaxRetry - 1
       /\ users[u].failed = 1
       /\ Len(users[u].errors) = 1

\* An attempt that ends in a non-timeout exception: one raised by the client,
\* or the TypeError of unpacking a None classification of the response status.
RaisesNonTimeout(o) ==
  \/ o.exception \notin {NoException, "TimeoutError"}
  \/ /\ o.exception = NoException
     /\ ~status_ok(o.status)
     /\ categorize_error(NoException, o.status) = PyNone

RaisedBy(o) == IF o.exception = NoException THEN "TypeError" ELSE o.exception

\* C24: on a non-timeout exception during an attempt the executor retries
\* after a one-second sleep iff attempt < retry_attempts and the category of
\* the exception is retry-eligible; otherwise it issues no further attempt,
\* records exactly one ErrorRecord, adds 1 to the failure counter and returns
\* what determine_degradation_strategy computes.
C24_ExceptionRetry ==
  [][\A u \in DOMAIN users : \A o \in Outcomes :
       ( /\ target = {o}
         /\ RaisesNonTimeout(o)
         /\ users[u].pc = "attempt"
         /\ users'[u] # users[u]
         /\ users[u].endpoint.method \in SupportedMethods ) =>
         LET cs == categorize_error(RaisedBy(o), NoStatus)
             eligible == cs[1] \in {"timeout", "network", "server_error"}
         IN IF users[u].attempt < dsl_data.retry_attempts /\ eligible
            THEN /\ users'[u].pc = "attempt"
                 /\ users'[u].attempt = users[u].attempt + 1
                 /\ users'[u].slept = users[u].slept + 1
                 /\ users'[u].errors = users[u].errors
                 /\ users'[u].failed = users[u].failed
            ELSE /\ users'[u].pc = "returned"
                 /\ users'[u].sent = users[u].attempt + 1
                 /\ Len(users'[u].errors) = Len(users[u].errors) + 1
                 /\ Last(users'[u].errors).category = cs[1]
                 /\ users'[u].failed = users[u].failed + 1
                 /\ users'[u].strategy =
                      determine_degradation_strategy(cs[1], cs[2],
                        users[u].attempt, dsl_data.retry_attempts)]_vars

\* The attempts that must have been answered with a 2xx status: the only
\* answer of the target, or a return before the timeouts were exhausted.
Answered2xx(u) ==
  /\ target \subseteq {Raise("TimeoutError"), Answer(200)}
  /\ Returning(u)
  /\ users'[u].sent > 0
  /\ (target = {Answer(200)} \/ users[u].attempt < dsl_data.retry_attempts)

\* C25: as soon as an attempt gets a response with a 2xx status the executor
\* appends one latency sample, adds 1 to the success counter, returns
\* continue_journey and issues no further attempt for that step, however many
\* earlier attempts failed; failures and error records stay as they were.
C25_SuccessStops ==
  [][\A u \in DOMAIN users :
       /\ Answered2xx(u) =>
            /\ users'[u].latencies = Append(users[u].latencies, 1)
            /\ users'[u].successful = users[u].successful + 1
            /\ users'[u].requests = users[u].requests + 1
            /\ users'[u].failed = users[u].failed
            /\ users'[u].errors = users[u].errors
            /\ users'[u].strategy = "continue_journey"
            /\ users'[u].sent = users[u].attempt + 1
       /\ (target = {Answer(200)} /\ users[u].pc = "attempt")
            => (users'[u] = users[u] \/ Returning(u))
       /\ users[u].pc = "returned"
            => users'[u].sent \in {users[u].sent, 0}]_vars

\* A step has returned continue_journey on a 2xx answer to its last-but-one
\* attempt, after the earlier attempts timed out.
C25_Witness ==
  /\ target = {Raise("TimeoutError"), Answer(200)}
  /\ dsl_data.retry_attempts = MaxRetry
  /\ \E u \in DOMAIN users :
       /\ users[u].pc = "returned"
       /\ users[u].attempt = MaxRetry - 1
       /\ users[u].sent = MaxRetry
       /\ users[u].successful = 1
       /\ users[u].failed = 0
       /\ users[u].strategy = "continue_journey"

\* C26: once the progress task has been cancelled (closed model: when the
\* user tasks have been gathered; open model: when the arrival loop has ended
\* and the active sessions have drained) no further progress update is
\* emitted, none in particular after the TestResult of the test was posted,
\* and the cancelled task stays cancelled.
C26_NoStrayProgress ==
  [][/\ (main.pc \in {"send_results", "done"} \/ coordinator.results # <<>>)
          => coordinator'.progress = coordinator.progress
     /\ (main.pc # "start" /\ main.progress_task.pc = "cancelled")
          => main'.progress_task.pc = "cancelled"]_vars

\* The TestResult was posted after the progress task, which had emitted an
\* update and was not finished, received its cancellation.
C26_Witness ==
  /\ main.pc = "done"
  /\ main.progress_task.pc = "cancelled"
  /\ coordinator.progress # <<>>
  /\ coordinator.results # <<>>

\* The script was parsed and a plan came back.
Parsed == call.fn = "parse_dsl" /\ call.returned /\ call.result.raised = "None"

\* A journey is open at line i: the last `journey:` or `end` line before it
\* is a `journey:` line.
OpenAt(dsl_script, i) ==
  LET marks == { j \in 1..i - 1 : dsl_script[j].kind \in {"journey", "end"} }
  IN /\ marks # {}
     /\ dsl_script[CHOOSE j \in marks : \A m \in marks : m <= j].kind = "journey"

\* s can be obtained from t by deleting elements.
IsSubsequence(s, t) ==
  LET RECURSIVE sub(_, _)
      sub(i, j) == IF i > Len(s) THEN TRUE
                   ELSE IF j > Len(t) THEN FALSE
                   ELSE IF s[i] = t[j] THEN sub(i + 1, j + 1)
                   ELSE sub(i, j + 1)
  IN sub(1, 1)

\* C27: every recognised step line is appended to the flat step list, and to
\* the step list of the open journey iff a journey is open at that line: the
\* flat list of the plan is exactly the sequence of the recognised step lines,
\* each journey's steps are a subsequence of it, and the journeys hold as many
\* steps as there are recognised step lines written inside an open journey.
C27_StepsInBothLists ==
  Parsed =>
    LET dsl_script == call.dsl_script
        user_journey == call.result.user_journey
        recognised == SelectSeq(dsl_script, LAMBDA l : l.kind = "step" /\ l.matches)
    IN /\ call.result.steps = [n \in DOMAIN recognised |-> WrittenStep(recognised[n])]
       /\ \A k \in DOMAIN user_journey :
            IsSubsequence(user_journey[k].steps, call.result.steps)
       /\ SumSeq([k \in DOMAIN user_journey |-> Len(user_journey[k].steps)]) =
            Cardinality({ i \in DOMAIN dsl_script :
                            /\ dsl_script[i].kind = "step"
                            /\ dsl_script[i].matches
                            /\ OpenAt(dsl_script, i) })

\* A script with a step line before its journey and one inside it was parsed:
\* two steps in the flat list, the second of them in the journey.
C27_Witness ==
  /\ Parsed
  /\ Len(call.result.steps) = 2
  /\ Len(call.result.user_journey) = 1
  /\ Len(call.result.user_journey[1].steps) = 1
  /\ call.result.user_journey[1].steps[1] = call.result.steps[2]
  /\ call.result.steps[1] # call.result.steps[2]

\* The script with line i turned into a comment line.
Without(dsl_script, i) == [dsl_script EXCEPT ![i] = Line("comment", "", NotANumber)]

\* The number of `journey:` lines up to line i.
JourneysBefore(dsl_script, i) ==
  Cardinality({ j \in 1..i : dsl_script[j].kind = "journey" })

\* C28: a journey is current from its `journey:` line until the next `end` or
\* `journey:` line. A `repeat:` or `if:` line written while a journey is
\* current changes nothing but the repeat count or the condition of that
\* journey; written while no journey is current it changes nothing at all; a
\* step line written while no journey is current goes to the flat list only.
C28_CurrentJourneyOnly ==
  (call.fn = "parse_dsl" /\ call.returned) =>
    \A i \in DOMAIN call.dsl_script :
      LET dsl_script == call.dsl_script
          line == dsl_script[i]
          plan == call.result
          other == parse_dsl(Without(dsl_script, i))
      IN /\ (line.kind \in {"repeat", "if"} /\ ~OpenAt(dsl_script, i)) => plan = other
         /\ (line.kind \in {"repeat", "if"} /\ OpenAt(dsl_script, i)) =>
              /\ plan.raised = other.raised
              /\ plan.raised = "None" =>
                   /\ [plan EXCEPT !.user_journey = <<>>] = [other EXCEPT !.user_journey = <<>>]
                   /\ Len(plan.user_journey) = Len(other.user_journey)
                   /\ \A k \in DOMAIN plan.user_journey :
                        /\ plan.user_journey[k].name = other.user_journey[k].name
                        /\ plan.user_journey[k].steps = other.user_journey[k].steps
                        /\ k # JourneysBefore(dsl_script, i)
                             => plan.user_journey[k] = other.user_journey[k]
                        /\ line.kind = "repeat"
                             => plan.user_journey[k].condition = other.user_journey[k].condition
                        /\ line.kind = "if"
                             => plan.user_journey[k].repeat = other.user_journey[k].repeat
         /\ ( /\ line.kind = "step" /\ line.matches /\ ~OpenAt(dsl_script, i)
              /\ plan.raised = "None" ) =>
              /\ other.raised = "None"
              /\ plan.user_journey = other.user_journey
              /\ Len(plan.steps) = Len(other.steps) + 1

\* A script was parsed that closes its journey and then has a repeat line and
\* a step line: the journey kept repeat 1 and no step, the flat list the step.
C28_Witness ==
  /\ Parsed
  /\ \E i \in DOMAIN call.dsl_script :
       /\ call.dsl_script[i].kind = "repeat"
       /\ call.dsl_script[i].text = Num(2)
       /\ ~OpenAt(call.dsl_script, i)
       /\ JourneysBefore(call.dsl_script, i) = 1
  /\ Len(call.result.user_journey) = 1
  /\ call.result.user_journey[1].repeat = 1
  /\ call.result.user_journey[1].steps = <<>>
  /\ Len(call.result.steps) = 1

\* C29: every journey of a plan parse_dsl returns has repeat count >= 1,
\* whatever the script, `repeat: 0` and negative repeat values included.
C29_RepeatAtLeastOne ==
  Parsed => \A k \in DOMAIN call.result.user_journey :
              call.result.user_journey[k].repeat >= 1

\* The documented default of the numeric directive on a line, as the text of
\* a line that writes it out.
DefaultText(line) ==
  CASE line.kind = "users" -> Num(1)
    [] line.kind = "duration" -> Num(60)
    [] line.kind = "repeat" -> Num(1)
    [] line.kind = "peak_hours" -> Hours(ConfigDefaults.peak_hours)
    [] line.kind = "config" -> Num(ConfigDefaults[line.word])

\* The last line of the script with this branch and key, 0 if there is none.
LastLine(dsl_script, kind, word) ==
  LET at == { i \in DOMAIN dsl_script :
                dsl_script[i].kind = kind /\ dsl_script[i].word = word }
  IN IF at = {} THEN 0 ELSE CHOOSE i \in at : \A j \in at : j <= i

\* The last line with this branch and key has a text that does not convert.
LastFails(dsl_script, kind, word) ==
  /\ LastLine(dsl_script, kind, word) # 0
  /\ ~dsl_script[LastLine(dsl_script, kind, word)].text.ok

\* C30: a numeric directive (users, duration, the pattern_config numbers,
\* peak_hours, repeat) whose value fails to convert sets its field to the
\* documented default, not to the value parsed before, raises nothing, and
\* leaves the other fields and the processing of the other lines as they are:
\* the plan is the plan of the script that writes the default on that line.
C30_DefaultOnBadNumber ==
  (call.fn = "parse_dsl" /\ call.returned) =>
    LET dsl_script == call.dsl_script
        plan == call.result
    IN /\ \A i \in DOMAIN dsl_script :
            ( /\ dsl_script[i].kind \in {"users", "duration", "repeat", "peak_hours", "config"}
              /\ ~dsl_script[i].text.ok ) =>
              plan = parse_dsl([dsl_script EXCEPT ![i].text = DefaultText(dsl_script[i])])
       /\ plan.raised = "None" =>
            /\ LastFails(dsl_script, "users", "") => plan.num_users = 1
            /\ LastFails(dsl_script, "duration", "") => plan.test_duration = 60
            /\ LastFails(dsl_script, "peak_hours", "")
                 => plan.pattern_config["peak_hours"] = <<9, 10, 11, 14, 15, 16>>
            /\ \A k \in ConfigKeys :
                 LastFails(dsl_script, "config", k)
                   => plan.pattern_config[k] = ConfigDefaults[k]
       /\ (\A i \in DOMAIN dsl_script : dsl_script[i].kind # "step")
            => plan.raised = "None"

\* A script was parsed whose users line with a number is followed by a users
\* line without one: the plan has the default population, not the earlier 3.
C30_Witness ==
  /\ Parsed
  /\ Len(call.dsl_script) = 2
  /\ call.dsl_script[1] = Line("users", "", Num(3))
  /\ call.dsl_script[2] = Line("users", "", NotANumber)
  /\ call.result.num_users = 1

\* C31: for gradual_ramp with the default configuration (start_delay 3.0,
\* end_delay 0.5, ramp_steps 10) every delay returned at current_time = 0 lies
\* within [0.7 * start_delay, 1.3 * start_delay] and every delay returned at
\* current_time = duration within [0.7 * end_delay, 1.3 * end_delay].
C31_RampEndpoints ==
  ( /\ call.fn = "get_next_delay" /\ call.returned
    /\ call.generator.pattern = "gradual_ramp"
    /\ call.generator.pattern_config = <<>> ) =>
    /\ call.generator.current_time = 0
         => (21000 <= call.delay /\ call.delay <= 39000)
    /\ call.generator.current_time = call.generator.duration
         => (3500 <= call.delay /\ call.delay <= 6500)

\* C32: after any sequence of step executions of a user/session its counters
\* satisfy requests = successful + failed, and so does the TestResult built
\* from the sessions: total_requests = successful_requests + failed_requests.
C32_RequestsBalance ==
  /\ \A u \in DOMAIN users :
       users[u].requests = users[u].successful + users[u].failed
  /\ LET r == TestResult(test_task.test_id,
                         [u \in DOMAIN users |-> SessionOutcome(users[u])])
     IN r.total_requests = r.successful_requests + r.failed_requests

\* A user has finished a journey in which one step succeeded and another
\* failed.
C32_Witness ==
  \E u \in DOMAIN users :
    /\ users[u].pc = "done"
    /\ users[u].successful >= 1
    /\ users[u].failed >= 1
    /\ users[u].requests = users[u].successful + users[u].failed

\* C33: after any sequence of step executions of a user/session its error
\* list has as many ErrorRecords as its failure counter counts, and its
\* latency list as many samples as its success counter counts.
C33_RecordsMatchCounters ==
  \A u \in DOMAIN users :
    /\ Len(users[u].errors) = users[u].failed
    /\ Len(users[u].latencies) = users[u].successful

\* C34: all tasks of a test share one generator, yet under every
\* interleaving the delay a task obtains is computed from the current_time
\* that the same task has just written with update_time, never from another
\* task's value: no suspension point lies between the two calls.
C34_DelayFromOwnTime ==
  call.fn = "get_next_delay" =>
    /\ call.current_time = call.elapsed_time
    /\ \E r \in Draws :
         call.delay = get_next_delay(
           [pattern |-> dsl_data.workload_pattern, duration |-> dsl_data.test_duration,
            current_time |-> call.elapsed_time,
            pattern_config |-> dsl_data.pattern_config], r)

\* The second of two tasks has obtained a delay for its own elapsed time on
\* a generator that held the time written by an earlier call.
C34_Witness ==
  /\ call.fn = "get_next_delay"
  /\ Len(users) = 2
  /\ call.user_id = 1
  /\ call.elapsed_time = 1
  /\ call.previous = 0
  /\ dsl_data.workload_pattern = "gradual_ramp"

\* C35: in the open model every session spawned during one test gets an id
\* distinct from the id of every other session of that test.
C35_DistinctSessionIds ==
  dsl_data.user_model = "open" =>
    \A u \in DOMAIN users : \A v \in DOMAIN users :
      u # v => users[u].user_id # users[v].user_id

\* C36: in every state the coordinator reaches, whatever the interleaving
\* of create_test, result, error and progress posts, timeout sweeps and
\* delete_test, a test id is a key of at most one of active_tests,
\* completed_tests and failed_tests.
C36_OneDictionaryPerId ==
  \A id \in AllIds :
    /\ ~(id \in DOMAIN coordinator.active_tests
         /\ id \in DOMAIN coordinator.completed_tests)
    /\ ~(id \in DOMAIN coordinator.active_tests
         /\ id \in DOMAIN coordinator.failed_tests)
    /\ ~(id \in DOMAIN coordinator.completed_tests
         /\ id \in DOMAIN coordinator.failed_tests)

\* What the coordinator stores as the outcome of a finished test.
Outcome(c, d, id) ==
  <<c.objects[d[id]].status, c.objects[d[id]].results, c.objects[d[id]].error>>

\* C37: a terminal state is absorbing: once an id is a key of
\* completed_tests or of failed_tests, no later step (a result, error or
\* progress post, a sweep, a create_test for the same id) changes the
\* status, results or error stored for it, or files it under the other
\* terminal dictionary.
C37_TerminalAbsorbing ==
  [][\A id \in AllIds :
       /\ id \in DOMAIN coordinator.completed_tests =>
          /\ id \in DOMAIN coordinator'.completed_tests
            /\ Outcome(coordinator', coordinator'.completed_tests, id)
                 = Outcome(coordinator, coordinator.completed_tests, id)
            /\ id \notin DOMAIN coordinator'.failed_tests
       /\ id \in DOMAIN coordinator.failed_tests =>
          /\ id \in DOMAIN coordinator'.failed_tests
            /\ Outcome(coordinator', coordinator'.failed_tests, id)
                 = Outcome(coordinator, coordinator.failed_tests, id)
            /\ id \notin DOMAIN coordinator'.completed_tests]_vars

\* C38: while a test stays in active_tests, no step (a progress post, a
\* status query, a sweep) lowers its stored progress, and the progress
\* stays within [0, 100].
C38_ProgressMonotone ==
  [][\A id \in AllIds :
       (/\ id \in DOMAIN coordinator.active_tests
        /\ id \in DOMAIN coordinator'.active_tests
        /\ coordinator'.active_tests[id] = coordinator.active_tests[id])
       => LET test_status == coordinator.active_tests[id]
          IN  /\ coordinator'.objects[test_status].progress
                   >= coordinator.objects[test_status].progress
              /\ coordinator'.objects[test_status].progress \in 0..100]_vars

\* C39: every test that is registered in active_tests (by create_test, by
\* the auto-run of generate_dsl, by a causal experiment) eventually leaves
\* active_tests, even if no worker ever posts for it, because the sweep
\* fails it once it has run longer than test_duration + 600 seconds.
C39_EventuallyLeavesActive ==
  \A id \in AllIds :
    (id \in DOMAIN coordinator.active_tests)
      ~> (id \notin DOMAIN coordinator.active_tests)

\* The objects the three dictionaries refer to.
Filed(c) ==
  UNION { { d[id] : id \in DOMAIN d } :
          d \in {c.active_tests, c.completed_tests, c.failed_tests} }

\* C40: when create_test answers with an error (target unavailable, script
\* without steps, queue unavailable), the record it made for the id, if it
\* made one, is in none of active_tests, completed_tests and failed_tests.
C40_ErrorLeavesNoRecord ==
  [][(/\ call' # call
      /\ call'.fn = "create_test"
      /\ call'.status_code # 200)
     => call'.test_status \notin Filed(coordinator')]_vars

\* C10: determine_degradation_strategy yields a strategy for all arguments:
\* continue_journey while attempt < max_attempts; afterwards terminate_journey
\* for auth_error, skip_step for http_error of severity high, fallback_endpoint
\* for timeout and network, continue_journey for everything else.
C10_PolicyTable ==
  (call.fn = "determine_degradation_strategy" /\ call.result # "None") =>
    /\ call.result \in DegradationStrategy
    /\ call.attempt < call.max_attempts => call.result = "continue_journey"
    /\ call.attempt >= call.max_attempts =>
         /\ call.category = "auth_error" => call.result = "terminate_journey"
         /\ (call.category = "http_error" /\ call.severity = "high")
              => call.result = "skip_step"
         /\ call.category \in {"timeout", "network"} => call.result = "fallback_endpoint"
         /\ ( /\ call.category \notin {"auth_error", "timeout", "network"}
              /\ ~(call.category = "http_error" /\ call.severity = "high") )
              => call.result = "continue_journey"

\* The policy has answered at the boundary attempt = max_attempts for a
\* timeout, where retries are exhausted for the first time.
C10_Witness ==
  /\ call.fn = "determine_degradation_strategy"
  /\ call.category = "timeout"
  /\ call.attempt = call.max_attempts
  /\ call.max_attempts = MaxRetry
  /\ call.result = "fallback_endpoint"

====
